---- MODULE Spec2Model ----
(***************************************************************************)
(* A model of the sdlang decoding layer: the literal decoders of           *)
(* src/parse.rs, the tag/attribute assembler, parse_text and parse_file of *)
(* src/lib.rs, and the builders, lookups and Display of src/types.rs.      *)
(* Text is a sequence of one-character strings; a syntax node is what the  *)
(* grammar engine hands over: a rule, the matched text, a span and the     *)
(* ordered inner nodes.  A decoder ends in Ok(value), Err(message, span)   *)
(* or a panic (unreachable!() / unwrap()).                                 *)
(***************************************************************************)
EXTENDS Integers, Sequences, FiniteSets, TLC

VARIABLES entry, tree, tz, strict, stream, pc, result, stack, visited, call

vars == <<entry, tree, tz, strict, stream, pc, result, stack, visited, call>>

(***************************************************************************)
(* Bounds of the model.                                                    *)
(***************************************************************************)
\* How far around a width's limit the number literals are drawn.
MaxDelta == 1
\* The most leading zeros of a number literal.
MaxPad == 1
\* The longest interior of a string literal.
MaxStrLen == 3
\* The longest byte sequence that is base64-encoded.
MaxBytes == 4
\* The most top-level tags of a document built from the small pool.
MaxTags == 3
\* The deepest chain of nested tags.
MaxDepth == 3
\* The most builder calls made on one tag.
MaxCalls == 3

(***************************************************************************)
(* Text.                                                                   *)
(***************************************************************************)
Digits == <<"0", "1", "2", "3", "4", "5", "6", "7", "8", "9">>

IsDigit(c) == \E i \in 1..10 : Digits[i] = c

\* char::to_digit(10)
DigitVal(c) == (CHOOSE i \in 1..10 : Digits[i] = c) - 1

\* char::from_digit(d, 10)
DigitChar(d) == Digits[d + 1]

(***************************************************************************)
(* Unbounded naturals as big-endian sequences of decimal digits without    *)
(* leading zeros (<<>> is 0): the values of i64, u64 and i128 do not fit   *)
(* the checker's integers.                                                 *)
(***************************************************************************)
\* Without the leading zeros.
BigNorm(a) ==
    IF \A i \in 1..Len(a) : a[i] = 0 THEN <<>>
    ELSE SubSeq(a, CHOOSE i \in 1..Len(a) : a[i] # 0 /\ \A j \in 1..(i - 1) : a[j] = 0, Len(a))

\* The first place where two naturals of the same length differ.
BigDiffer(a, b) == CHOOSE i \in 1..Len(a) : a[i] # b[i] /\ \A j \in 1..(i - 1) : a[j] = b[j]

\* -1, 0, 1 as a is below, equal to or above b (both without leading zeros).
BigCmp(a, b) ==
    IF Len(a) < Len(b) THEN -1
    ELSE IF Len(a) > Len(b) THEN 1
    ELSE IF a = b THEN 0
    ELSE IF a[BigDiffer(a, b)] < b[BigDiffer(a, b)] THEN -1
    ELSE 1

RECURSIVE BigOfNat(_)
BigOfNat(n) == IF n = 0 THEN <<>> ELSE Append(BigOfNat(n \div 10), n % 10)

\* The last place of a that holds another digit than d.
BigLast(a, d) == CHOOSE i \in 1..Len(a) : a[i] # d /\ \A j \in (i + 1)..Len(a) : a[j] = d

\* a - 1, for a > 0: the borrow runs through the trailing zeros.
BigPredAt(a, i) ==
    BigNorm([j \in 1..Len(a) |-> IF j < i THEN a[j] ELSE IF j = i THEN a[j] - 1 ELSE 9])

BigPred(a) == BigPredAt(a, BigLast(a, 0))

\* a + 1: the carry runs through the trailing nines.
BigSuccAt(a, i) ==
    [j \in 1..Len(a) |-> IF j < i THEN a[j] ELSE IF j = i THEN a[j] + 1 ELSE 0]

BigSucc(a) ==
    IF \A i \in 1..Len(a) : a[i] = 9 THEN <<1>> \o [j \in 1..Len(a) |-> 0]
    ELSE BigSuccAt(a, BigLast(a, 9))

RECURSIVE BigSubNat(_, _)
\* a - n for a small n <= a.
BigSubNat(a, n) == IF n = 0 THEN a ELSE BigSubNat(BigPred(a), n - 1)

RECURSIVE BigAddNat(_, _)
\* a + n for a small n.
BigAddNat(a, n) == IF n = 0 THEN a ELSE BigAddNat(BigSucc(a), n - 1)

\* The powers of two at the edges of u32, i32, i64, u64 and i128.
Pow2(k) ==
    CASE k = 31 -> <<2, 1, 4, 7, 4, 8, 3, 6, 4, 8>>
      [] k = 32 -> <<4, 2, 9, 4, 9, 6, 7, 2, 9, 6>>
      [] k = 63 -> <<9, 2, 2, 3, 3, 7, 2, 0, 3, 6, 8, 5, 4, 7, 7, 5, 8, 0, 8>>
      [] k = 64 -> <<1, 8, 4, 4, 6, 7, 4, 4, 0, 7, 3, 7, 0, 9, 5, 5, 1, 6, 1, 6>>
      [] k = 127 -> <<1, 7, 0, 1, 4, 1, 1, 8, 3, 4, 6, 0, 4, 6, 9, 2, 3, 1, 7, 3,
                      1, 6, 8, 7, 3, 0, 3, 7, 1, 5, 8, 8, 4, 1, 0, 5, 7, 2, 8>>

\* The decimal rendering of a natural, as Display writes it.
BigText(a) == IF a = <<>> THEN <<"0">> ELSE [i \in 1..Len(a) |-> DigitChar(a[i])]

(***************************************************************************)
(* Results.                                                                *)
(***************************************************************************)
Ok(v) == [kind |-> "ok", val |-> v]

\* grammar::parse_err(message, span)
parse_err(what, text, node) ==
    [kind |-> "err", what |-> what, text |-> text, span |-> <<node.start, node.end>>]

\* unreachable!(), Option::unwrap() on None, LocalResult::unwrap()
Panic == [kind |-> "panic"]
\* The thread ran out of stack: the process is aborted.
StackOverflow == [kind |-> "abort"]

\* io::Result around a Result: Ok(result), or the io::Error of the read.
IoOk(r) == [kind |-> "io_ok", val |-> r]
IoErr(e) == [kind |-> "io_err", error |-> e]

IsOk(r) == r.kind = "ok"
IsErr(r) == r.kind = "err"
IsPanic(r) == r.kind = "panic"

(***************************************************************************)
(* Syntax nodes (pest Pairs): rule, matched text, span, inner nodes.       *)
(***************************************************************************)
Tok(rule, text) ==
    [rule |-> rule, text |-> text, start |-> 0, end |-> Len(text), inner |-> <<>>]

RECURSIVE Shift(_, _)
\* The node moved d characters to the right.
Shift(n, d) ==
    [rule |-> n.rule, text |-> n.text, start |-> n.start + d, end |-> n.end + d,
     inner |-> [i \in 1..Len(n.inner) |-> Shift(n.inner[i], d)]]

RECURSIVE Place(_, _, _)
\* The nodes laid out one after the other from offset at, sep between them.
Place(kids, at, sep) ==
    IF kids = <<>> THEN <<>>
    ELSE <<Shift(Head(kids), at)>>
         \o Place(Tail(kids), at + Len(Head(kids).text) + Len(sep), sep)

RECURSIVE Join(_, _)
Join(kids, sep) ==
    IF kids = <<>> THEN <<>>
    ELSE IF Len(kids) = 1 THEN kids[1].text
    ELSE kids[1].text \o sep \o Join(Tail(kids), sep)

\* A node matching pre, the inner nodes separated by sep, post.
Node(rule, pre, kids, sep, post) ==
    LET text == pre \o Join(kids, sep) \o post
    IN  [rule |-> rule, text |-> text, start |-> 0, end |-> Len(text),
         inner |-> Place(kids, Len(pre), sep)]

(***************************************************************************)
(* str::parse::<i32 / i64 / i128>                                          *)
(***************************************************************************)
\* The largest magnitude of a signed integer of the width, per sign: that of
\* iN::MIN is 2^(bits-1), iN::MAX is one less.
IntLimit(bits, neg) == IF neg THEN Pow2(bits - 1) ELSE BigPred(Pow2(bits - 1))

\* The value of a run of digits.
DigitsValue(digits) == BigNorm([i \in 1..Len(digits) |-> DigitVal(digits[i])])

\* checked_mul(10) then checked_add / checked_sub of each digit in turn: an
\* error at a character that is no digit, or once the value passes the limit.
ParseDigits(digits, limit) ==
    IF \E i \in 1..Len(digits) : ~IsDigit(digits[i]) THEN [ok |-> FALSE, mag |-> <<>>]
    ELSE IF BigCmp(DigitsValue(digits), limit) > 0 THEN [ok |-> FALSE, mag |-> <<>>]
    ELSE [ok |-> TRUE, mag |-> DigitsValue(digits)]

\* The digits after the sign: at least one.
ParseMagnitude(digits, limit) ==
    IF digits = <<>> THEN [ok |-> FALSE, mag |-> <<>>]
    ELSE ParseDigits(digits, limit)

\* An integer: the sign and the magnitude (zero has no sign).
SignedInt(neg, r) ==
    IF r.ok THEN [ok |-> TRUE, val |-> [neg |-> neg /\ r.mag # <<>>, mag |-> r.mag]]
    ELSE [ok |-> FALSE]

ParseInt(text, bits) ==
    IF text = <<>> THEN [ok |-> FALSE]
    ELSE SignedInt(Head(text) = "-",
                   ParseMagnitude(IF Head(text) \in {"+", "-"} THEN Tail(text) ELSE text,
                                  IntLimit(bits, Head(text) = "-")))

(***************************************************************************)
(* parse::number                                                           *)
(***************************************************************************)
\* pairs.next().map(|p| p.as_str()): the text of the second inner node.
SuffixOf(t) == IF Len(t.inner) >= 2 THEN t.inner[2].text ELSE <<>>

\* Result::map(..) and map_err(|_| parse_err(..)) on what str::parse gives.
OkOrErr(r, what, node) ==
    IF r.ok THEN Ok(r.val) ELSE parse_err(what, node.text, node)

NumberWidthWide(suffix) ==
    IF suffix = <<>> THEN 64
    ELSE IF suffix = <<"L">> THEN 64
    ELSE IF suffix = <<"B", "D">> THEN 128
    ELSE 0

\* The arms of the match on the suffix: the width parsed at (0 for
\* unreachable!()).
NumberWidth(suffix) ==
    IF suffix = <<>> THEN 32
    ELSE IF suffix = <<"L">> THEN 64
    ELSE IF suffix = <<"B", "D">> THEN 128
    ELSE 0

number(t) ==
    IF t.inner = <<>> \/ NumberWidth(SuffixOf(t)) = 0 THEN Panic
    ELSE OkOrErr(ParseInt(t.inner[1].text, NumberWidth(SuffixOf(t))), "number", t.inner[1])

(***************************************************************************)
(* Inputs: number literals around the limit of each width.                 *)
(***************************************************************************)
Widths == {32, 64, 128}

\* The magnitudes within MaxDelta of 2^(bits-1), and the small ones.
NumberMags ==
    {BigSubNat(Pow2(b - 1), d) : b \in Widths, d \in 0..(MaxDelta + 1)}
    \cup {BigAddNat(Pow2(b - 1), d) : b \in Widths, d \in 1..MaxDelta}
    \cup {BigOfNat(d) : d \in 0..MaxDelta}

Zeros(k) == [i \in 1..k |-> "0"]

NumberTexts ==
    {sign \o Zeros(pad) \o BigText(m) :
        sign \in {<<>>, <<"-">>, <<"+">>}, pad \in 0..MaxPad, m \in NumberMags}

Suffixes == {<<>>, <<"L">>, <<"B", "D">>}

NumberNode(text, suffix) ==
    Node("number", <<>>,
         <<Tok("int", text)>> \o (IF suffix = <<>> THEN <<>> ELSE <<Tok("suffix", suffix)>>),
         <<>>, <<>>)

NumberTrees == {NumberNode(t, s) : t \in NumberTexts, s \in Suffixes \cup {<<"X">>}}

(***************************************************************************)
(* parse::string                                                           *)
(***************************************************************************)
\* The characters that are not letters or digits, by name.
BSL == "<BSL>"
QUOTE == "<QUOTE>"
APOS == "<APOS>"
BACKTICK == "<BACKTICK>"
NL == "<NL>"
CR == "<CR>"
TAB == "<TAB>"
NUL == "<NUL>"

\* The characters the escape table of the match knows.
EscapeChars == {NL, "n", "r", "t", BSL, "0", QUOTE, APOS}

\* One arm of the match on an escaped character.
Escape(ch) ==
    IF ch \in {NL, "n"} THEN NL
    ELSE IF ch = "r" THEN CR
    ELSE IF ch = "t" THEN TAB
    ELSE IF ch = BSL THEN BSL
    ELSE IF ch = "0" THEN NUL
    ELSE IF ch = QUOTE THEN QUOTE
    ELSE APOS

RECURSIVE EscapeFold(_, _, _)
\* The fold over the interior: (esc, res) is the accumulator; unreachable!()
\* on an escaped character outside the table.
EscapeFold(text, esc, res) ==
    IF text = <<>> THEN Ok(res)
    ELSE LET ch == Head(text)
         IN  IF esc THEN
                 IF ch \in EscapeChars
                 THEN EscapeFold(Tail(text), FALSE, Append(res, Escape(ch)))
                 ELSE Panic
             ELSE IF ch = BSL THEN EscapeFold(Tail(text), TRUE, res)
             ELSE EscapeFold(Tail(text), FALSE, Append(res, ch))

stringEscapesRaw(t) ==
    LET beg == t.start + 1
        end == t.end - 1
        len == end - beg
    IN  IF end < beg THEN Panic
        ELSE EscapeFold(SubSeq(t.text, 2, len + 1), FALSE, <<>>)

string(t) ==
    LET beg == t.start + 1
        end == t.end - 1
        len == end - beg
        text == SubSeq(t.text, 2, len + 1)
    IN  IF end < beg THEN Panic
        ELSE IF Head(t.text) = BACKTICK THEN Ok(text)
        ELSE EscapeFold(text, FALSE, <<>>)

(***************************************************************************)
(* Inputs: string literals, quoted and raw, over a small alphabet that     *)
(* holds the backslash, an escape letter, a plain letter, both delimiters  *)
(* and a character outside the escape table.                               *)
(***************************************************************************)
StringAlphabet == {"a", "n", "x", BSL, QUOTE, BACKTICK, NL}

RECURSIVE SeqsUpTo(_, _)
\* All sequences over S of length at most n.
SeqsUpTo(S, n) ==
    IF n = 0 THEN {<<>>}
    ELSE LET shorter == SeqsUpTo(S, n - 1)
         IN  shorter \cup {Append(q, c) : q \in shorter, c \in S}

\* The texts over the alphabet, and the escapes of the table each on its own.
StringInteriors ==
    SeqsUpTo(StringAlphabet, MaxStrLen) \cup {<<BSL, c>> : c \in EscapeChars}

StringTrees ==
    {Tok("string", <<d>> \o body \o <<d>>) :
        d \in {QUOTE, BACKTICK}, body \in StringInteriors}

(***************************************************************************)
(* chrono: parse_from_str for the formats the decoders use.                *)
(***************************************************************************)
RECURSIVE ScanDigits(_, _, _, _)
\* scan::number(s, 1, max): one to max digits, their value and how many.
ScanDigits(s, max, n, val) ==
    IF s # <<>> /\ n < max /\ IsDigit(Head(s))
    THEN ScanDigits(Tail(s), max, n + 1, val * 10 + DigitVal(Head(s)))
    ELSE [ok |-> n >= 1, val |-> val, n |-> n, rest |-> s]

\* The state of a parse along a format: the fields read and the text left.
AddField(r, d, scale) ==
    [ok |-> d.ok, vals |-> Append(r.vals, d.val * scale), rest |-> d.rest]

RECURSIVE Pow10(_)
Pow10(k) == IF k = 0 THEN 1 ELSE 10 * Pow10(k - 1)

\* A numeric item of the format: %Y (four digits), %m, %d, %H, %M, %S (two).
ScanField(r, max) ==
    IF r.ok THEN AddField(r, ScanDigits(r.rest, max, 0, 0), 1) ELSE r

\* A literal character of the format.
ScanLit(r, ch) ==
    IF r.ok /\ r.rest # <<>> /\ Head(r.rest) = ch
    THEN [r EXCEPT !.rest = Tail(r.rest)]
    ELSE [r EXCEPT !.ok = FALSE]

\* The digits of a fraction as nanoseconds.
AddNanos(r, d) == AddField(r, d, Pow10(9 - d.n))

\* %.3f: nothing, or a dot and one to nine digits, as nanoseconds.
ScanFraction(r) ==
    IF r.ok /\ r.rest # <<>> /\ Head(r.rest) = "."
    THEN AddNanos(r, ScanDigits(Tail(r.rest), 9, 0, 0))
    ELSE [r EXCEPT !.vals = Append(@, 0)]

\* The leap years of the Julian calendar: every fourth year.
IsLeapYearJulian(y) == y % 4 = 0

IsLeapYear(y) == (y % 4 = 0 /\ y % 100 # 0) \/ y % 400 = 0

DaysInMonth(y, m) ==
    IF m = 2 THEN (IF IsLeapYear(y) THEN 29 ELSE 28)
    ELSE IF m \in {4, 6, 9, 11} THEN 30
    ELSE 31

\* Parsed::to_naive_date: the fields as a date of the calendar.
DateOf(r) ==
    IF r.ok /\ r.rest = <<>>
       /\ r.vals[2] \in 1..12 /\ r.vals[3] \in 1..DaysInMonth(r.vals[1], r.vals[2])
    THEN [ok |-> TRUE, val |-> [year |-> r.vals[1], month |-> r.vals[2], day |-> r.vals[3]]]
    ELSE [ok |-> FALSE]

\* NaiveDate::parse_from_str(text, "%Y/%m/%d")
ParseDate(text) ==
    DateOf(ScanField(ScanLit(ScanField(ScanLit(ScanField([ok |-> TRUE, vals |-> <<>>, rest |-> text], 4), "/"), 2), "/"), 2))

\* Parsed::to_naive_time.  A second of 60 is a leap second: second 59 and a
\* nanosecond past 10^9.
TimeOf(r) ==
    IF r.ok /\ r.rest = <<>>
       /\ r.vals[1] \in 0..23 /\ r.vals[2] \in 0..59 /\ r.vals[3] \in 0..60
    THEN [ok |-> TRUE,
          val |-> [hour |-> r.vals[1], minute |-> r.vals[2],
                   second |-> IF r.vals[3] = 60 THEN 59 ELSE r.vals[3],
                   nanosecond |-> r.vals[4] + (IF r.vals[3] = 60 THEN 1000000000 ELSE 0)]]
    ELSE [ok |-> FALSE]

\* "%H:%M:%S%.3f" when fraction, else "%H:%M:%S".
ScanFractionIf(fraction, r) ==
    IF fraction THEN ScanFraction(r)
    ELSE IF r.ok THEN [r EXCEPT !.vals = Append(@, 0)]
    ELSE r

\* NaiveTime::parse_from_str(text, fmt)
ParseTime(text, fraction) ==
    TimeOf(ScanFractionIf(fraction,
        ScanField(ScanLit(ScanField(ScanLit(ScanField([ok |-> TRUE, vals |-> <<>>, rest |-> text], 2), ":"), 2), ":"), 2)))

(***************************************************************************)
(* parse::date, parse::time                                                *)
(***************************************************************************)
date(t) == OkOrErr(ParseDate(t.text), "date", t)

\* The format has the fraction when the node has an inner node.
time(t) == OkOrErr(ParseTime(t.text, t.inner # <<>>), "time", t)

(***************************************************************************)
(* std::time::Duration: whole seconds (u64) and nanoseconds below 10^9.    *)
(***************************************************************************)
\* Seconds are naturals past the native integers: four limbs of six decimal
\* digits each, the lowest first.
U64Norm(a0, a1, a2, a3) ==
    <<a0 % 1000000,
      (a1 + a0 \div 1000000) % 1000000,
      (a2 + (a1 + a0 \div 1000000) \div 1000000) % 1000000,
      a3 + (a2 + (a1 + a0 \div 1000000) \div 1000000) \div 1000000>>

U64OfNat(n) == U64Norm(n, 0, 0, 0)

DigitAt(ds, p) == IF p >= 1 /\ p <= Len(ds) THEN ds[p] ELSE 0

\* The six digits of ds that end at the place p, as a number.
LimbAt(ds, p) ==
    DigitAt(ds, p) + 10 * DigitAt(ds, p - 1) + 100 * DigitAt(ds, p - 2)
    + 1000 * DigitAt(ds, p - 3) + 10000 * DigitAt(ds, p - 4) + 100000 * DigitAt(ds, p - 5)

\* The limbs of a natural given by its decimal digits.
U64OfDigits(ds) ==
    <<LimbAt(ds, Len(ds)), LimbAt(ds, Len(ds) - 6),
      LimbAt(ds, Len(ds) - 12), LimbAt(ds, Len(ds) - 18)>>

\* x * k for a small k, x + y.
U64Mul(x, k) == U64Norm(x[1] * k, x[2] * k, x[3] * k, x[4] * k)

U64Add(x, y) == U64Norm(x[1] + y[1], x[2] + y[2], x[3] + y[3], x[4] + y[4])

\* Whether the natural fits u64: it is below 2^64 = 18 446744 073709 551616.
FitsU64(x) ==
    \/ x[4] < 18
    \/ x[4] = 18 /\ x[3] < 446744
    \/ x[4] = 18 /\ x[3] = 446744 /\ x[2] < 73709
    \/ x[4] = 18 /\ x[3] = 446744 /\ x[2] = 73709 /\ x[1] < 551616

\* Duration::new(secs, nanos): the nanoseconds carry into the seconds.
DurationNew(secs, nanos) ==
    [secs |-> U64Add(secs, U64OfNat(nanos \div 1000000000)),
     nanos |-> nanos % 1000000000]

\* Duration + Duration (AddAssign).
DurationAdd(a, b) ==
    DurationNew(U64Add(a.secs, b.secs), a.nanos + b.nanos)

\* str::parse::<u32>: an optional plus sign and digits, at most 2^32 - 1.
U32Of(r) == IF r.ok THEN [ok |-> TRUE, val |-> U64OfDigits(r.mag)] ELSE [ok |-> FALSE]

ParseU32(text) ==
    U32Of(ParseMagnitude(IF text # <<>> /\ Head(text) = "+" THEN Tail(text) ELSE text,
                         BigPred(Pow2(32))))

(***************************************************************************)
(* parse::duration                                                         *)
(***************************************************************************)
\* A u32 as two halves of 16 bits, <<high, low>>: 10^6 = 15 * 2^16 + 16960.
Halves(x) ==
    <<(15 * x[2] + (16960 * x[2] + x[1]) \div 65536) % 65536,
      (16960 * x[2] + x[1]) % 65536>>

\* h * k in 32 bits, the high bits lost.
HalvesMul(h, k) == <<(h[1] * k + (h[2] * k) \div 65536) % 65536, (h[2] * k) % 65536>>

\* The natural of two halves: 2^16 = 65 * 1000 + 536.
U64OfHalves(h) ==
    U64Norm(((h[1] * 65) % 1000) * 1000 + h[1] * 536 + h[2], (h[1] * 65) \div 1000, 0, 0)

\* val * 24 * 60 * 60 as a product of u32 that wraps.
DaySecsU32(val) == U64OfHalves(HalvesMul(HalvesMul(HalvesMul(Halves(val), 24), 60), 60))

\* val as u64 * 24 * 60 * 60
DaySecs(val) == U64Mul(U64Mul(U64Mul(val, 24), 60), 60)

\* dur += Duration::from_secs(secs); a product past u64 is an overflow.
AddDaySecs(dur, secs) ==
    IF FitsU64(secs) THEN Ok(DurationAdd(dur, DurationNew(secs, 0))) ELSE Panic

\* The arm of the days: parse::<u32>() mapped into the sum, or the error.
DaysStep(dur, r, p) ==
    IF r.ok THEN AddDaySecs(dur, DaySecs(r.val)) ELSE parse_err("days", p.text, p)

\* The arm of the time: the hours, minutes and seconds as elapsed seconds.
TimeStep(dur, r) ==
    IF IsOk(r)
    THEN Ok(DurationAdd(dur,
            DurationNew(U64OfNat(r.val.second + 60 * (r.val.minute + 60 * r.val.hour)),
                        r.val.nanosecond)))
    ELSE r

\* One round of the try_for_each: the duration after the inner node p, an
\* error, or a panic (unreachable!()).
DurationStep(dur, p) ==
    IF p.rule = "days" THEN DaysStep(dur, ParseU32(p.text), p)
    ELSE IF p.rule = "time" THEN TimeStep(dur, time(p))
    ELSE Panic

RECURSIVE DurationFold(_, _)
RECURSIVE DurationRest(_, _)
DurationFold(dur, ps) ==
    IF ps = <<>> THEN Ok(dur) ELSE DurationRest(DurationStep(dur, Head(ps)), Tail(ps))

\* The ? of the try_for_each: the first error ends it.
DurationRest(r, ps) == IF IsOk(r) THEN DurationFold(r.val, ps) ELSE r

duration(t) == DurationFold(DurationNew(U64OfNat(0), 0), t.inner)

(***************************************************************************)
(* Inputs: times and durations.                                            *)
(***************************************************************************)
TwoDigits(n) == <<DigitChar(n \div 10), DigitChar(n % 10)>>

ThreeDigits(n) == <<DigitChar(n \div 100), DigitChar((n \div 10) % 10), DigitChar(n % 10)>>

\* The node of a time: the fraction, when there is one, is its inner node.
TimeNode(h, m, sec, ms) ==
    LET hms == TwoDigits(h) \o <<":">> \o TwoDigits(m) \o <<":">> \o TwoDigits(sec)
    IN  IF ms < 0 THEN Tok("time", hms)
        ELSE Node("time", hms, <<Tok("fraction", <<".">> \o ThreeDigits(ms))>>, <<>>, <<>>)

\* Times in and out of range, with a leap second; -1 stands for no fraction.
TimeTrees ==
    {TimeNode(h, m, sec, ms) :
        h \in {0, 1, 23, 24}, m \in {0, 2, 59}, sec \in {0, 3, 59, 60}, ms \in {-1, 4, 999}}

\* Day counts: small ones, those around the largest count whose seconds fit
\* 32 bits, and those around the largest u32.
DayCounts ==
    {BigOfNat(d) : d \in 0..(MaxDelta + 1)}
    \cup {BigOfNat(49710 + d) : d \in 0..MaxDelta}
    \cup {BigSubNat(Pow2(32), d) : d \in 0..(MaxDelta + 1)}

DurationNode(days, t) ==
    Node("duration", <<>>, <<Tok("days", BigText(days)), t>>, <<"d", ":">>, <<>>)

DurationTrees ==
    {DurationNode(d, t) : d \in DayCounts, t \in TimeTrees}
    \cup {Node("duration", <<>>, <<t>>, <<>>, <<>>) : t \in TimeTrees}
    \cup {Node("duration", <<>>, <<Tok("days", <<"1">>), Tok("hours", <<"0", "1">>)>>,
               <<"d", ":">>, <<>>)}

(***************************************************************************)
(* chrono: naive date-times as a day number and a second of the day, and   *)
(* the local time zone.                                                    *)
(***************************************************************************)
\* The days from 1970/01/01 to the date (proleptic Gregorian).
DaysFromCivil(y, m, d) ==
    LET yy == IF m <= 2 THEN y - 1 ELSE y
        era == yy \div 400
        yoe == yy - era * 400
        mp == IF m > 2 THEN m - 3 ELSE m + 9
        doy == (153 * mp + 2) \div 5 + d - 1
        doe == yoe * 365 + yoe \div 4 - yoe \div 100 + doy
    IN  era * 146097 + doe - 719468

\* NaiveDateTime::new(date, time)
NaiveDateTimeNew(dt, tm) ==
    [day |-> DaysFromCivil(dt.year, dt.month, dt.day),
     sec |-> tm.second + 60 * (tm.minute + 60 * tm.hour),
     nano |-> tm.nanosecond]

\* The date-time k seconds later (earlier for a negative k).
AddSecs(n, k) ==
    [day |-> n.day + (n.sec + k) \div 86400, sec |-> (n.sec + k) % 86400, nano |-> n.nano]

\* Whether instant a is before instant b, to the second.
Before(a, b) == a.day < b.day \/ (a.day = b.day /\ a.sec < b.sec)

\* A time zone: a standard offset, and a daylight-saving offset that applies
\* from the UTC instant from up to the UTC instant to (offsets in seconds).
NewYork ==
    [std |-> -18000, dst |-> -14400,
     from |-> [day |-> DaysFromCivil(2021, 3, 14), sec |-> 7 * 3600, nano |-> 0],
     to |-> [day |-> DaysFromCivil(2021, 11, 7), sec |-> 6 * 3600, nano |-> 0]]

Kolkata ==
    [std |-> 19800, dst |-> 19800,
     from |-> [day |-> 0, sec |-> 0, nano |-> 0],
     to |-> [day |-> 0, sec |-> 0, nano |-> 0]]

Zones == {NewYork, Kolkata}

\* The time at which the program runs: a winter day of 2021.
Now == [day |-> DaysFromCivil(2021, 1, 15), sec |-> 12 * 3600, nano |-> 0]

\* TimeZone::offset_from_utc_datetime for Local
OffsetAtUtc(z, u) ==
    IF ~Before(u, z.from) /\ Before(u, z.to) THEN z.dst ELSE z.std

\* Local.from_local_datetime(naive): the offsets under which some instant
\* shows the wall-clock time naive: none in a daylight-saving gap
\* (LocalResult::None), two in an overlap (LocalResult::Ambiguous).
LocalOffsets(z, naive) ==
    {o \in {z.std, z.dst} : OffsetAtUtc(z, AddSecs(naive, -o)) = o}

(***************************************************************************)
(* parse::datetime                                                         *)
(***************************************************************************)
\* A DateTime<FixedOffset>: the instant in UTC and the offset attached.
DateTimeOf(utc, offset) == [utc |-> utc, offset |-> offset]

\* The instant whose wall-clock time under the offset o is naive.
WithOffset(naive, o) == DateTimeOf(AddSecs(naive, -o), o)

\* LocalResult::unwrap(), then with_timezone(local.offset()).
UnwrapLocal(naive, offsets) ==
    IF Cardinality(offsets) = 1 THEN Ok(WithOffset(naive, CHOOSE o \in offsets : TRUE))
    ELSE Panic

AttachCached(naive, utc, z) ==
    IF utc THEN Ok(DateTimeOf(naive, 0))
    ELSE Ok(WithOffset(naive, OffsetAtUtc(z, Now)))

\* With the UTC marker Utc.fix().from_utc_datetime(&naive), without it
\* Local.from_local_datetime(&naive).unwrap() at its own offset.
Attach(naive, utc, z) ==
    IF utc THEN Ok(DateTimeOf(naive, 0))
    ELSE UnwrapLocal(naive, LocalOffsets(z, naive))

\* date(..)? and time(..)? in turn, then the naive date-time.
DateTimeFrom(d, tm, utc, z) ==
    IF ~IsOk(d) THEN d
    ELSE IF ~IsOk(tm) THEN tm
    ELSE Attach(NaiveDateTimeNew(d.val, tm.val), utc, z)

datetime(t, z) ==
    IF Len(t.inner) < 2 THEN Panic
    ELSE DateTimeFrom(date(t.inner[1]), time(t.inner[2]), Len(t.inner) >= 3, z)

(***************************************************************************)
(* Inputs: dates and date-times on and around the daylight-saving changes  *)
(* of 2021, and dates the calendar does not have.                          *)
(***************************************************************************)
FourDigits(n) == TwoDigits(n \div 100) \o TwoDigits(n % 100)

DateNode(y, m, d) ==
    Tok("date", FourDigits(y) \o <<"/">> \o TwoDigits(m) \o <<"/">> \o TwoDigits(d))

DateTimeNode(d, t, utc) ==
    Node("datetime", <<>>,
         <<d, t>> \o (IF utc THEN <<Tok("utc", <<"U", "T", "C">>)>> ELSE <<>>),
         <<" ">>, <<>>)

\* Days of winter, of summer and of the two changes of the clock in New
\* York, and a day no month has; the times around the changes.
DateTimeTrees ==
    {DateTimeNode(d, TimeNode(h, m, sec, ms), utc) :
        d \in {DateNode(2021, 1, 15), DateNode(2021, 3, 14), DateNode(2021, 7, 4),
               DateNode(2021, 11, 7), DateNode(2021, 12, 31), DateNode(2021, 2, 30)},
        h \in {0, 1, 2, 3, 23}, m \in {0, 30}, sec \in {0, 60}, ms \in {-1, 4},
        utc \in BOOLEAN}

(***************************************************************************)
(* The base64 crate: the standard alphabet with = padding.                 *)
(***************************************************************************)
B64Alphabet ==
    <<
      "A", "B", "C", "D", "E", "F", "G", "H", "I", "J", "K", "L", "M", "N", "O", "P",
      "Q", "R", "S", "T", "U", "V", "W", "X", "Y", "Z", "a", "b", "c", "d", "e", "f",
      "g", "h", "i", "j", "k", "l", "m", "n", "o", "p", "q", "r", "s", "t", "u", "v",
      "w", "x", "y", "z", "0", "1", "2", "3", "4", "5", "6", "7", "8", "9", "+", "/" >>

IsB64(c) == \E i \in 1..64 : B64Alphabet[i] = c

B64Val(c) == (CHOOSE i \in 1..64 : B64Alphabet[i] = c) - 1

B64Char(v) == B64Alphabet[v + 1]

RECURSIVE B64Encode(_)
\* base64::encode: three bytes to four symbols, the last group padded.
B64Encode(bytes) ==
    IF bytes = <<>> THEN <<>>
    ELSE IF Len(bytes) = 1 THEN
        <<B64Char(bytes[1] \div 4), B64Char((bytes[1] % 4) * 16), "=", "=">>
    ELSE IF Len(bytes) = 2 THEN
        <<B64Char(bytes[1] \div 4), B64Char((bytes[1] % 4) * 16 + bytes[2] \div 16),
          B64Char((bytes[2] % 16) * 4), "=">>
    ELSE <<B64Char(bytes[1] \div 4), B64Char((bytes[1] % 4) * 16 + bytes[2] \div 16),
           B64Char((bytes[2] % 16) * 4 + bytes[3] \div 64), B64Char(bytes[3] % 64)>>
         \o B64Encode(SubSeq(bytes, 4, Len(bytes)))

RECURSIVE B64Data(_)
\* The symbols before the first padding character.
B64Data(syms) ==
    IF syms = <<>> \/ Head(syms) = "=" THEN <<>>
    ELSE <<Head(syms)>> \o B64Data(Tail(syms))

RECURSIVE B64Bytes(_)
\* The bytes of the symbols: four symbols to three bytes, a last group of
\* two or three symbols to one or two bytes.
B64Bytes(d) ==
    IF Len(d) < 2 THEN <<>>
    ELSE LET a == B64Val(d[1])
             b == B64Val(d[2])
             c == IF Len(d) >= 3 THEN B64Val(d[3]) ELSE 0
             e == IF Len(d) >= 4 THEN B64Val(d[4]) ELSE 0
             b1 == a * 4 + b \div 16
             b2 == (b % 16) * 16 + c \div 4
             b3 == (c % 4) * 64 + e
         IN  IF Len(d) = 2 THEN <<b1>>
             ELSE IF Len(d) = 3 THEN <<b1, b2>>
             ELSE <<b1, b2, b3>> \o B64Bytes(SubSeq(d, 5, Len(d)))

\* The bits of the last symbol that no byte takes.
B64TrailingBits(d) ==
    IF Len(d) % 4 = 2 THEN B64Val(d[Len(d)]) % 16
    ELSE IF Len(d) % 4 = 3 THEN B64Val(d[Len(d)]) % 4
    ELSE 0

\* base64::decode.  Every release rejects a symbol outside the alphabet,
\* padding before the end and a last group of one symbol; the releases
\* differ on missing or short padding and on set trailing bits, which
\* canonical tells apart.
B64Decode(syms, canonical) ==
    LET d == B64Data(syms)
        pads == SubSeq(syms, Len(d) + 1, Len(syms))
        need == IF Len(d) % 4 = 2 THEN 2 ELSE IF Len(d) % 4 = 3 THEN 1 ELSE 0
    IN  IF \/ \E i \in 1..Len(d) : ~IsB64(d[i])
           \/ \E i \in 1..Len(pads) : pads[i] # "="
           \/ Len(d) % 4 = 1
           \/ Len(pads) > need
        THEN [ok |-> FALSE]
        ELSE IF canonical /\ (Len(pads) # need \/ B64TrailingBits(d) # 0)
        THEN [ok |-> FALSE]
        ELSE [ok |-> TRUE, val |-> B64Bytes(d)]

(***************************************************************************)
(* parse::base64                                                           *)
(***************************************************************************)
RECURSIVE InnerBytes(_)
\* The bytes of the texts of the inner nodes, in order (the flat_map).
InnerBytes(ps) == IF ps = <<>> THEN <<>> ELSE Head(ps).text \o InnerBytes(Tail(ps))

\* The error of the decoder carries the whole node's span.
Base64Result(r, t) == IF r.ok THEN Ok(r.val) ELSE parse_err("base64", <<>>, t)

base64FirstGroup(t, canonical) ==
    Base64Result(
        B64Decode(InnerBytes(SubSeq(t.inner, 1, IF Len(t.inner) < 4 THEN Len(t.inner) ELSE 4)),
                  canonical), t)

base64(t, canonical) == Base64Result(B64Decode(InnerBytes(t.inner), canonical), t)

(***************************************************************************)
(* Inputs: base64 literals.  The grammar hands over one inner node for     *)
(* each character between the brackets that is not a blank.                *)
(***************************************************************************)
IsBlank(c) == c \in {" ", TAB}

RECURSIVE SymbolNodes(_, _)
\* The inner nodes of the body that starts at offset at.
SymbolNodes(body, at) ==
    IF body = <<>> THEN <<>>
    ELSE IF IsBlank(Head(body)) THEN SymbolNodes(Tail(body), at + 1)
    ELSE <<Shift(Tok("base64_char", <<Head(body)>>), at)>> \o SymbolNodes(Tail(body), at + 1)

Base64Node(body) ==
    [rule |-> "base64", text |-> <<"[">> \o body \o <<"]">>, start |-> 0,
     end |-> Len(body) + 2, inner |-> SymbolNodes(body, 1)]

ByteSamples == {0, 77, 255}

ByteSeqs == SeqsUpTo(ByteSamples, MaxBytes)

\* Runs of horizontal blanks: none, a space, a tab, both.
BlankRuns == {<<>>, <<" ">>, <<TAB>>, <<" ", TAB>>}

RECURSIVE Spaced(_)
\* The bodies that are the symbols in groups of four, a run of blanks after
\* each group.
Spaced(syms) ==
    IF syms = <<>> THEN {<<>>}
    ELSE {SubSeq(syms, 1, 4) \o w \o rest :
            w \in BlankRuns, rest \in Spaced(SubSeq(syms, 5, Len(syms)))}

\* The encodings of the byte sequences, blanks after the groups, and
\* payloads that need not be an encoding of anything.
Base64Trees ==
    {Base64Node(b) :
        b \in UNION {Spaced(B64Encode(bytes)) : bytes \in ByteSeqs}
              \cup SeqsUpTo({"Q", "R", "="}, MaxBytes)}

(***************************************************************************)
(* parse::decimal, parse::boolean                                          *)
(***************************************************************************)
RECURSIVE TrimZeros(_)
\* The digits without the zeros at the end.
TrimZeros(ds) ==
    IF ds # <<>> /\ ds[Len(ds)] = "0" THEN TrimZeros(SubSeq(ds, 1, Len(ds) - 1)) ELSE ds

\* str::parse::<f32 / f64> on an optional sign, digits, a dot and digits: the
\* decimal fraction the text denotes, rounded to the width.
ParseFloat(text, bits) ==
    LET neg == text # <<>> /\ Head(text) = "-"
        body == IF text # <<>> /\ Head(text) \in {"+", "-"} THEN Tail(text) ELSE text
        dot == IF \E i \in 1..Len(body) : body[i] = "."
               THEN CHOOSE i \in 1..Len(body) : body[i] = "."
               ELSE Len(body) + 1
        whole == SubSeq(body, 1, dot - 1)
        frac == TrimZeros(SubSeq(body, dot + 1, Len(body)))
        digits == whole \o frac
    IN  IF \/ Len(body) = 0
           \/ body = <<".">>
           \/ \E i \in 1..Len(digits) : ~IsDigit(digits[i])
        THEN [ok |-> FALSE]
        ELSE [ok |-> TRUE,
              val |-> [rounded |-> bits, neg |-> neg,
                       mantissa |-> BigNorm([i \in 1..Len(digits) |-> DigitVal(digits[i])]),
                       scale |-> Len(frac)]]

\* The arms of the match on the suffix: the width parsed at (0 for
\* unreachable!()).
DecimalWidth(suffix) ==
    IF suffix = <<>> THEN 32
    ELSE IF suffix = <<"f">> THEN 64
    ELSE 0

decimal(t) ==
    IF t.inner = <<>> \/ DecimalWidth(SuffixOf(t)) = 0 THEN Panic
    ELSE OkOrErr(ParseFloat(t.inner[1].text, DecimalWidth(SuffixOf(t))), "decimal", t.inner[1])

\* A decoder that reads the spelling instead of the rule.
booleanBySpelling(t) ==
    IF t.inner = <<>> THEN Panic
    ELSE Ok(t.inner[1].text = <<"t", "r", "u", "e">>)

boolean(t) ==
    IF t.inner = <<>> THEN Panic
    ELSE IF t.inner[1].rule = "bool_true" THEN Ok(TRUE)
    ELSE IF t.inner[1].rule = "bool_false" THEN Ok(FALSE)
    ELSE Panic

(***************************************************************************)
(* parse::value, ident, attribute, namespace                               *)
(***************************************************************************)
\* A Value: the variant, then what it holds.
Value(variant, v) == <<variant, v>>

\* Result::map(|v| v.into())
MapInto(r, variant) == IF IsOk(r) THEN Ok(Value(variant, r.val)) ELSE r

\* The match on the rule of the inner node.
ValueOf(n, z, canonical) ==
             IF n.rule = "string" THEN MapInto(string(n), "String")
             ELSE IF n.rule = "base64" THEN MapInto(base64(n, canonical), "Base64")
             ELSE IF n.rule = "date" THEN MapInto(date(n), "Date")
             ELSE IF n.rule = "datetime" THEN MapInto(datetime(n, z), "DateTime")
             ELSE IF n.rule = "duration" THEN MapInto(duration(n), "Duration")
             ELSE IF n.rule = "number" THEN MapInto(number(n), "Number")
             ELSE IF n.rule = "decimal" THEN MapInto(decimal(n), "Decimal")
             ELSE IF n.rule = "boolean" THEN MapInto(boolean(n), "Boolean")
             ELSE IF n.rule = "null" THEN Ok(Value("Null", <<>>))
             ELSE Panic

value(t, z, canonical) ==
    IF t.inner = <<>> THEN Panic ELSE ValueOf(t.inner[1], z, canonical)

ident(t) == Ok(t.text)

\* An Attribute: (name, value).into()
Attribute(name, val) == [name |-> name, value |-> val]

\* ident(name)? and value(val)? in turn, then the pair.
AttributeOf(name, val) ==
    IF ~IsOk(name) THEN name
    ELSE IF ~IsOk(val) THEN val
    ELSE Ok(Attribute(name.val, val.val))

attribute(t, z, canonical) ==
    IF Len(t.inner) < 2 THEN Panic
    ELSE AttributeOf(ident(t.inner[1]), value(t.inner[2], z, canonical))

namespace(t) == IF t.inner = <<>> THEN Panic ELSE ident(t.inner[1])

(***************************************************************************)
(* types::Tag                                                              *)
(***************************************************************************)
\* Option<String>
None == <<>>
Some(x) == <<x>>

\* Tag::new(name)
TagNew(name) ==
    [namespace |-> None, name |-> name, values |-> <<>>, attrs |-> <<>>, tags |-> <<>>]

\* The position of the first item of the list that has the name: what
\* iter().find(|x| x.name == name) stops at (0 when it runs to the end).
FindLastNamed(list, name) ==
    IF \E i \in 1..Len(list) : list[i].name = name
    THEN CHOOSE i \in 1..Len(list) :
            list[i].name = name /\ \A j \in (i + 1)..Len(list) : list[j].name # name
    ELSE 0

FindNamed(list, name) ==
    IF \E i \in 1..Len(list) : list[i].name = name
    THEN CHOOSE i \in 1..Len(list) :
            list[i].name = name /\ \A j \in 1..(i - 1) : list[j].name # name
    ELSE 0

\* Option<&T>: the reference is the place in the list and what lies there.
RefTo(list, i) == IF i = 0 THEN None ELSE Some([at |-> i, to |-> list[i]])

\* Tag::attr, Tag::attr_mut, Tag::tag, Tag::tag_mut
TagAttr(self, name) == RefTo(self.attrs, FindNamed(self.attrs, name))

TagAttrMut(self, name) == RefTo(self.attrs, FindNamed(self.attrs, name))

TagTag(self, name) == RefTo(self.tags, FindNamed(self.tags, name))

TagTagMut(self, name) == RefTo(self.tags, FindNamed(self.tags, name))

\* Tag::namespace, Tag::namespace_opt
TagNamespace(self, ns) == [self EXCEPT !.namespace = Some(ns)]

TagNamespaceOpt(self, ns) == [self EXCEPT !.namespace = ns]

\* Tag::values, Tag::attrs: self.values.extend(values), self.attrs.extend(attrs)
TagValues(self, values) == [self EXCEPT !.values = @ \o values]

TagAttrs(self, attrs) == [self EXCEPT !.attrs = @ \o attrs]

\* Tag::tags that leaves the children out.
TagTagsNone(self, tags) == self

\* Tag::tags(self, tags): self.tags.extend(tags)
TagTags(self, tags) == [self EXCEPT !.tags = @ \o tags]

(***************************************************************************)
(* parse::tag: one step of the try_fold.                                   *)
(***************************************************************************)
\* The tag after a child that is no nested tag list: Ok(tag), the error of
\* the child's decoder, or a panic (unreachable!()).
\* The arms of the match in the fold of parse::tag: the ? on what the
\* decoder gives, then the assignment or the push.
SetNamespace(tag, r) == IF IsOk(r) THEN Ok([tag EXCEPT !.namespace = Some(r.val)]) ELSE r

SetName(tag, r) == IF IsOk(r) THEN Ok([tag EXCEPT !.name = r.val]) ELSE r

\* The push of a value at the front.
PushValueFront(tag, r) == IF IsOk(r) THEN Ok([tag EXCEPT !.values = <<r.val>> \o @]) ELSE r

PushValue(tag, r) == IF IsOk(r) THEN Ok([tag EXCEPT !.values = Append(@, r.val)]) ELSE r

\* The push of an attribute that lets the error go.
PushAttrLenient(tag, r) == IF IsOk(r) THEN Ok([tag EXCEPT !.attrs = Append(@, r.val)]) ELSE Ok(tag)

PushAttr(tag, r) == IF IsOk(r) THEN Ok([tag EXCEPT !.attrs = Append(@, r.val)]) ELSE r

AppendTags(tag, r) == IF IsOk(r) THEN Ok([tag EXCEPT !.tags = @ \o r.val]) ELSE r

\* The fold that passes over a node of a rule it does not know.
TagChildLenient(tag, n, z, canonical) ==
    IF n.rule = "namespace" THEN SetNamespace(tag, namespace(n))
    ELSE IF n.rule = "ident" THEN SetName(tag, ident(n))
    ELSE IF n.rule = "value" THEN PushValue(tag, value(n, z, canonical))
    ELSE IF n.rule = "attribute" THEN PushAttr(tag, attribute(n, z, canonical))
    ELSE Ok(tag)

\* One round of the fold on an inner node that is not a tag list.
TagChild(tag, n, z, canonical) ==
    IF n.rule = "namespace" THEN SetNamespace(tag, namespace(n))
    ELSE IF n.rule = "ident" THEN SetName(tag, ident(n))
    ELSE IF n.rule = "value" THEN PushValue(tag, value(n, z, canonical))
    ELSE IF n.rule = "attribute" THEN PushAttr(tag, attribute(n, z, canonical))
    ELSE Panic

(***************************************************************************)
(* types: impl fmt::Display for Value, Attribute and Tag.  The text a      *)
(* value of the standard library or of chrono is written as is what its    *)
(* own Display (Debug for {:x?} and {:#?}) writes.                         *)
(***************************************************************************)
RECURSIVE JoinText(_, _)
\* The texts with the separator between them (itertools format / join).
JoinText(texts, sep) ==
    IF texts = <<>> THEN <<>>
    ELSE IF Len(texts) = 1 THEN texts[1]
    ELSE texts[1] \o sep \o JoinText(Tail(texts), sep)

\* A natural number in decimal, and zero-padded to six and nine digits.
NatText(n) == BigText(BigOfNat(n))

SixDigits(n) == ThreeDigits(n \div 1000) \o ThreeDigits(n % 1000)

NineDigits(n) == ThreeDigits(n \div 1000000) \o SixDigits(n % 1000000)

RECURSIVE DropZeros(_)
\* The digits without the zeros in front, one digit at least.
DropZeros(ds) == IF Len(ds) > 1 /\ Head(ds) = "0" THEN DropZeros(Tail(ds)) ELSE ds

HexDigits == <<"0", "1", "2", "3", "4", "5", "6", "7", "8", "9", "a", "b", "c", "d", "e", "f">>

\* {:x} of a u8: lower-case hexadecimal with no padding.
HexText(b) ==
    IF b < 16 THEN <<HexDigits[b + 1]>> ELSE <<HexDigits[(b \div 16) + 1], HexDigits[(b % 16) + 1]>>

\* {:x?} of a Vec<u8>
BytesDisplay(data) ==
    <<"[">> \o JoinText([i \in 1..Len(data) |-> HexText(data[i])], <<",", " ">>) \o <<"]">>

\* NaiveDate, for the years of four digits.
DateDisplay(d) == FourDigits(d.year) \o <<"-">> \o TwoDigits(d.month) \o <<"-">> \o TwoDigits(d.day)

\* The date of a day number: the inverse of DaysFromCivil.
CivilFromDays(day) ==
    LET z == day + 719468
        era == z \div 146097
        doe == z - era * 146097
        yoe == (doe - doe \div 1460 + doe \div 36524 - doe \div 146096) \div 365
        doy == doe - (365 * yoe + yoe \div 4 - yoe \div 100)
        mp == (5 * doy + 2) \div 153
        m == IF mp < 10 THEN mp + 3 ELSE mp - 9
    IN  [year |-> yoe + era * 400 + (IF m <= 2 THEN 1 ELSE 0), month |-> m,
         day |-> doy - (153 * mp + 2) \div 5 + 1]

\* The fraction of a NaiveTime: none, or three, six or nine digits.
FractionDisplay(nano) ==
    IF nano = 0 THEN <<>>
    ELSE IF nano % 1000000 = 0 THEN <<".">> \o ThreeDigits(nano \div 1000000)
    ELSE IF nano % 1000 = 0 THEN <<".">> \o SixDigits(nano \div 1000)
    ELSE <<".">> \o NineDigits(nano)

\* NaiveTime: a nanosecond past 10^9 is the leap second, written 60.
TimeDisplay(sec, nano) ==
    TwoDigits(sec \div 3600) \o <<":">> \o TwoDigits((sec \div 60) % 60) \o <<":">>
    \o TwoDigits((sec % 60) + (nano \div 1000000000)) \o FractionDisplay(nano % 1000000000)

\* FixedOffset: +HH:MM
OffsetDisplay(o) ==
    (IF o < 0 THEN <<"-">> ELSE <<"+">>)
    \o TwoDigits((IF o < 0 THEN -o ELSE o) \div 3600) \o <<":">>
    \o TwoDigits(((IF o < 0 THEN -o ELSE o) \div 60) % 60)

\* The date and time of the wall clock at the offset.
LocalDisplay(local) ==
    DateDisplay(CivilFromDays(local.day)) \o <<" ">> \o TimeDisplay(local.sec, local.nano)

\* DateTime<FixedOffset>: the local date and time, a blank, the offset.
DateTimeDisplay(dt) ==
    LocalDisplay(AddSecs(dt.utc, dt.offset)) \o <<" ">> \o OffsetDisplay(dt.offset)

\* fmt_decimal: the whole part, and the fraction without its last zeros.
DecimalText(whole, frac) ==
    whole \o (IF TrimZeros(frac) = <<>> THEN <<>> ELSE <<".">> \o TrimZeros(frac))

\* The seconds of a Duration in decimal.
U64Text(x) == DropZeros(SixDigits(x[4]) \o SixDigits(x[3]) \o SixDigits(x[2]) \o SixDigits(x[1]))

\* {:#?} of a Duration: seconds, else milliseconds, microseconds, nanoseconds.
DurationDisplay(dur) ==
    IF dur.secs # U64OfNat(0)
    THEN DecimalText(U64Text(dur.secs), NineDigits(dur.nanos)) \o <<"s">>
    ELSE IF dur.nanos >= 1000000
    THEN DecimalText(NatText(dur.nanos \div 1000000), SixDigits(dur.nanos % 1000000)) \o <<"m", "s">>
    ELSE IF dur.nanos >= 1000
    THEN DecimalText(NatText(dur.nanos \div 1000), ThreeDigits(dur.nanos % 1000)) \o <<"<MICRO>", "s">>
    ELSE NatText(dur.nanos) \o <<"n", "s">>

\* An i128.
NumberDisplay(num) == (IF num.neg THEN <<"-">> ELSE <<>>) \o BigText(num.mag)

\* An f64 that holds the decimal fraction exactly: the shortest digits that
\* read back as the same number, so a whole number has no point and no zero
\* after it.
FloatDisplay(dec) ==
    LET digits == BigText(dec.mantissa)
        padded == Zeros(dec.scale + 1 - Len(digits)) \o digits
        cut == Len(padded) - dec.scale
    IN  (IF dec.neg THEN <<"-">> ELSE <<>>)
        \o DecimalText(SubSeq(padded, 1, cut), SubSeq(padded, cut + 1, Len(padded)))

BoolDisplay(val) == IF val THEN <<"t", "r", "u", "e">> ELSE <<"f", "a", "l", "s", "e">>

\* fmt::Display for Value
ValueDisplay(v) ==
    IF v[1] = "String" THEN <<QUOTE>> \o v[2] \o <<QUOTE>>
    ELSE IF v[1] = "Base64" THEN BytesDisplay(v[2])
    ELSE IF v[1] = "Date" THEN DateDisplay(v[2])
    ELSE IF v[1] = "DateTime" THEN DateTimeDisplay(v[2])
    ELSE IF v[1] = "Duration" THEN DurationDisplay(v[2])
    ELSE IF v[1] = "Number" THEN NumberDisplay(v[2])
    ELSE IF v[1] = "Decimal" THEN FloatDisplay(v[2])
    ELSE IF v[1] = "Boolean" THEN BoolDisplay(v[2])
    ELSE <<"n", "u", "l", "l">>

\* fmt::Display for Attribute: <name>: <value>
AttributeDisplay(a) == a.name \o <<":", " ">> \o ValueDisplay(a.value)

\* str::replace('\n', "\n  ")
RECURSIVE Indent(_)
Indent(text) ==
    IF text = <<>> THEN <<>>
    ELSE (IF Head(text) = NL THEN <<NL, " ", " ">> ELSE <<Head(text)>>) \o Indent(Tail(text))

\* namespace.iter().chain(once(&name)).format(":")
QualifiedName(t) ==
    JoinText((IF t.namespace = None THEN <<>> ELSE <<t.namespace[1]>>) \o <<t.name>>, <<":">>)

\* The values, then the attributes in square brackets, with ", " between.
ItemsDisplay(t) ==
    JoinText([i \in 1..Len(t.values) |-> ValueDisplay(t.values[i])]
             \o [i \in 1..Len(t.attrs) |-> <<"[">> \o AttributeDisplay(t.attrs[i]) \o <<"]">>],
             <<",", " ">>)

RECURSIVE TagDisplay(_)
\* fmt::Display for Tag: tag "<namespace>:<name>": <items>, then each child
\* on a line of its own after "* ", its own lines indented.
TagDisplay(t) ==
    <<"t", "a", "g", " ", QUOTE>> \o QualifiedName(t) \o <<QUOTE, ":", " ">> \o ItemsDisplay(t)
    \o JoinText([i \in 1..Len(t.tags) |->
                    <<NL, "*", " ">> \o Indent(TagDisplay(t.tags[i]))], <<>>)

(***************************************************************************)
(* Inputs: documents.                                                      *)
(***************************************************************************)
IdentNode(name) == Tok("ident", name)

NamespaceNode(name) == Node("namespace", <<>>, <<IdentNode(name)>>, <<>>, <<":">>)

ValueNode(lit) == Node("value", <<>>, <<lit>>, <<>>, <<>>)

AttributeNode(name, lit) ==
    Node("attribute", <<>>, <<IdentNode(name), ValueNode(lit)>>, <<"=">>, <<>>)

TagNode(kids) == Node("tag", <<>>, kids, <<" ">>, <<>>)

\* The children of a tag, in braces.
BlockNode(tags) == Node("tags", <<"{">>, tags, <<";">>, <<"}">>)

\* A whole document: the tag tree over the top-level tags.
TagTreeNode(tags) == Node("tagtree", <<>>, <<Node("tags", <<>>, tags, <<";">>, <<>>)>>, <<>>, <<>>)

\* What grammar::parse gives on text that matches no production.
SyntaxError == Tok("syntax_error", <<QUOTE, "a">>)

LitString == Tok("string", <<QUOTE, "a", QUOTE>>)
LitOne == NumberNode(<<"1">>, <<>>)
LitOn == Node("boolean", <<>>, <<Tok("bool_true", <<"o", "n">>)>>, <<>>, <<>>)
LitNull == Tok("null", <<"n", "u", "l", "l">>)
\* Literals that do not decode: an integer past 32 bits, a payload of one symbol.
LitTooLarge == NumberNode(BigText(Pow2(31)), <<>>)
LitBadBase64 == Base64Node(<<"Q">>)
\* A wall-clock time that New York skipped.
LitGap == DateTimeNode(DateNode(2021, 3, 14), TimeNode(2, 30, 0, -1), FALSE)

TagA == TagNode(<<IdentNode(<<"a">>)>>)

TagB ==
    TagNode(<<NamespaceNode(<<"n">>), IdentNode(<<"b">>), ValueNode(LitString),
              ValueNode(LitOne), AttributeNode(<<"k">>, LitOn), AttributeNode(<<"k">>, LitNull)>>)

TagAnon == TagNode(<<ValueNode(LitString)>>)

TagTooLarge == TagNode(<<IdentNode(<<"e">>), ValueNode(LitTooLarge), ValueNode(LitBadBase64)>>)

TagBadAttr == TagNode(<<IdentNode(<<"f">>), AttributeNode(<<"k">>, LitBadBase64)>>)

TagGap == TagNode(<<IdentNode(<<"g">>), ValueNode(LitGap)>>)

\* Nodes no grammar production gives: a child of a tag and a literal of
\* rules the matches do not know.
TagOddChild == TagNode(<<IdentNode(<<"h">>), Tok("comment", <<"#">>)>>)
TagOddValue == TagNode(<<IdentNode(<<"i">>), ValueNode(Tok("comment", <<"#">>))>>)
\* A decimal with a suffix the match does not know.
LitOddDecimal ==
    Node("decimal", <<>>, <<Tok("float", <<"1", ".", "5">>), Tok("suffix", <<"d">>)>>, <<>>, <<>>)
TagOddDecimal == TagNode(<<IdentNode(<<"j">>), ValueNode(LitOddDecimal)>>)

Parent(name, tags) == TagNode(<<IdentNode(name), BlockNode(tags)>>)

RECURSIVE Chain(_, _)
\* The tag at the bottom of depth nested tags.
Chain(depth, bottom) ==
    IF depth = 0 THEN bottom ELSE Parent(<<"o">>, <<Chain(depth - 1, bottom)>>)

\* The tags a document is made of.
SmallPool ==
    {TagA, TagB, TagTooLarge, Parent(<<"o">>, <<TagA, TagBadAttr, TagB>>),
     Parent(<<"p">>, <<TagAnon, TagA>>)}

LargePool ==
    {TagAnon, TagBadAttr, TagGap, TagOddChild, TagOddValue, TagOddDecimal}
    \cup {Chain(d, b) : d \in 1..MaxDepth, b \in {TagB, TagBadAttr}}
    \cup {TagNode(<<IdentNode(<<"q">>), ValueNode(LitOne), BlockNode(<<TagA>>),
                    AttributeNode(<<"k">>, LitOn), BlockNode(<<TagB>>)>>)}

\* The text of the example of the crate documentation: hello_world "text"
HelloWorld == <<"h", "e", "l", "l", "o", "_", "w", "o", "r", "l", "d">>

DocExample ==
    TagTreeNode(<<TagNode(<<IdentNode(HelloWorld),
                            ValueNode(Tok("string", <<QUOTE, "t", "e", "x", "t", QUOTE>>))>>)>>)

\* A document nested one tag list deeper than the chains of the pool.
DeepDocument == TagTreeNode(<<Chain(MaxDepth + 1, TagA)>>)

DocumentTrees ==
    {TagTreeNode(tags) : tags \in SeqsUpTo(SmallPool, MaxTags)}
    \cup {DocExample, DeepDocument}
    \cup {TagTreeNode(<<t>>) : t \in LargePool}
    \cup {TagTreeNode(<<TagA, t>>) : t \in LargePool}
    \cup {SyntaxError, Tok("tagtree", <<>>)}

(***************************************************************************)
(* Inputs: dates and booleans on their own.                                *)
(***************************************************************************)
\* Years at both ends of the four digits, a leap year, a century that is
\* one and a century that is not; every month from 00 to 13; the days
\* around the ends of the months.
DateYears == {0, 1900, 2000, 2020, 2021, 9999}

DateDays == {0, 1, 28, 29, 30, 31, 32}

DateTrees == {DateNode(y, m, d) : y \in DateYears, m \in 0..13, d \in DateDays}

\* The spellings of each family of the grammar.
Spellings(family) ==
    IF family = "bool_true" THEN {<<"t", "r", "u", "e">>, <<"o", "n">>}
    ELSE {<<"f", "a", "l", "s", "e">>, <<"o", "f", "f">>}

BooleanNode(family, text) == Node("boolean", <<>>, <<Tok(family, text)>>, <<>>, <<>>)

\* What the grammar gives on the four spellings.
GrammarBooleans ==
    {BooleanNode(f, t) : f \in {"bool_true"}, t \in Spellings("bool_true")}
    \cup {BooleanNode(f, t) : f \in {"bool_false"}, t \in Spellings("bool_false")}

\* And nodes built by hand: a family over a spelling of the other one, a
\* family the match does not know, no inner node at all.
BooleanTrees ==
    GrammarBooleans
    \cup {BooleanNode(f, t) : f \in {"bool_true", "bool_false", "bool_maybe"},
                             t \in Spellings("bool_true") \cup Spellings("bool_false")}
    \cup {Tok("boolean", <<"o", "n">>)}

(***************************************************************************)
(* Inputs: one literal of every kind of value, those that look alike       *)
(* among them.                                                             *)
(***************************************************************************)
DecimalNode(text, suffix) ==
    Node("decimal", <<>>,
         <<Tok("float", text)>> \o (IF suffix = <<>> THEN <<>> ELSE <<Tok("suffix", suffix)>>),
         <<>>, <<>>)

Literals ==
    {LitString, LitOne, LitOn, LitNull,
     Tok("string", <<QUOTE, "1", QUOTE>>),
     Tok("string", <<QUOTE, "n", "u", "l", "l", QUOTE>>),
     Tok("string", <<BACKTICK, "t", "r", "u", "e", BACKTICK>>),
     Base64Node(<<>>), Base64Node(B64Encode(<<0, 77, 255>>)),
     DateNode(2021, 3, 14), DateNode(1, 1, 1),
     DateTimeNode(DateNode(2021, 7, 4), TimeNode(1, 30, 0, -1), TRUE),
     DateTimeNode(DateNode(2021, 7, 4), TimeNode(23, 59, 60, 4), FALSE),
     DurationNode(BigOfNat(1), TimeNode(0, 0, 1, 500)),
     Node("duration", <<>>, <<TimeNode(0, 0, 1, -1)>>, <<>>, <<>>),
     Node("duration", <<>>, <<TimeNode(0, 0, 0, 4)>>, <<>>, <<>>),
     Node("duration", <<>>, <<TimeNode(0, 0, 0, -1)>>, <<>>, <<>>),
     NumberNode(<<"0">>, <<>>), NumberNode(<<"-", "1">>, <<>>), NumberNode(<<"2">>, <<"L">>),
     NumberNode(BigText(Pow2(64)), <<"B", "D">>),
     DecimalNode(<<"1", ".", "0">>, <<>>), DecimalNode(<<"1", ".", "5">>, <<>>),
     DecimalNode(<<"2", ".", "0">>, <<"f">>), DecimalNode(<<"0", ".", "5">>, <<"f">>),
     DecimalNode(<<"-", "1", ".", "0">>, <<>>),
     BooleanNode("bool_false", <<"o", "f", "f">>)}

ValueTrees == {ValueNode(lit) : lit \in Literals}

(***************************************************************************)
(* The state machine.                                                      *)
(***************************************************************************)
NoResult == [kind |-> "none"]

\* What reading the stream to its end comes to: the whole content read, an
\* error of the reader, bytes that are no UTF-8.
Streams == {"read", "io_error", "invalid_utf8"}

\* The syntax trees of the contents of the streams: one tag each, no tag, a
\* text the grammar does not match.
FileTrees ==
    {TagTreeNode(<<t>>) : t \in SmallPool \cup LargePool}
    \cup {TagTreeNode(<<TagA, TagTooLarge, TagB>>), TagTreeNode(<<>>), SyntaxError}

\* No syntax tree: the run decodes nothing.
NoTree == Tok("none", <<>>)

\* A call of a method of types.rs: the receiver, the argument and what the
\* call returned; n counts the calls made so far.
Call(method, self, arg, ret, n) ==
    [method |-> method, self |-> self, arg |-> arg, ret |-> ret, n |-> n]

NoCall == Call("none", <<>>, <<>>, <<>>, 0)

\* The names looked up: of attributes, of tags, of a namespace, of nothing.
Names == {<<"k">>, <<"a">>, <<"b">>, <<"n">>, <<"o">>}

Inputs ==
    ({"number"} \X NumberTrees)
    \cup ({"string"} \X StringTrees)
    \cup ({"duration"} \X DurationTrees)
    \cup ({"datetime"} \X DateTimeTrees)
    \cup ({"base64"} \X Base64Trees)
    \cup ({"date"} \X DateTrees)
    \cup ({"boolean"} \X BooleanTrees)
    \cup ({"builder"} \X {NoTree})
    \cup ({"value"} \X ValueTrees)
    \cup ({"parse_file"} \X FileTrees)
    \cup ({"parse_text"} \X DocumentTrees)

Init ==
    /\ \E inp \in Inputs : entry = inp[1] /\ tree = inp[2]
    /\ tz \in (IF entry = "datetime" THEN Zones ELSE {NewYork})
    /\ strict \in (IF entry = "base64" THEN BOOLEAN ELSE {TRUE})
    /\ stream \in (IF entry = "parse_file" THEN Streams ELSE {"read"})
    /\ call = NoCall
    /\ pc = "start"
    /\ result = NoResult
    /\ stack = <<>>
    /\ visited = <<>>

DecodeNumber ==
    /\ pc = "start" /\ entry = "number"
    /\ result' = number(tree)
    /\ pc' = "done"
    /\ UNCHANGED <<entry, tree, tz, strict, stream, call, stack, visited>>

DecodeString ==
    /\ pc = "start" /\ entry = "string"
    /\ result' = string(tree)
    /\ pc' = "done"
    /\ UNCHANGED <<entry, tree, tz, strict, stream, call, stack, visited>>

DecodeDuration ==
    /\ pc = "start" /\ entry = "duration"
    /\ result' = duration(tree)
    /\ pc' = "done"
    /\ UNCHANGED <<entry, tree, tz, strict, stream, call, stack, visited>>

DecodeDateTime ==
    /\ pc = "start" /\ entry = "datetime"
    /\ result' = datetime(tree, tz)
    /\ pc' = "done"
    /\ UNCHANGED <<entry, tree, tz, strict, stream, call, stack, visited>>

DecodeBase64 ==
    /\ pc = "start" /\ entry = "base64"
    /\ result' = base64(tree, strict)
    /\ pc' = "done"
    /\ UNCHANGED <<entry, tree, tz, strict, stream, call, stack, visited>>

DecodeDate ==
    /\ pc = "start" /\ entry = "date"
    /\ result' = date(tree)
    /\ pc' = "done"
    /\ UNCHANGED <<entry, tree, tz, strict, stream, call, stack, visited>>

DecodeBoolean ==
    /\ pc = "start" /\ entry = "boolean"
    /\ result' = boolean(tree)
    /\ pc' = "done"
    /\ UNCHANGED <<entry, tree, tz, strict, stream, call, stack, visited>>

\* Value::from_str after the grammar: parse::value
DecodeValue ==
    /\ pc = "start" /\ entry = "value"
    /\ result' = value(tree, tz, strict)
    /\ pc' = "done"
    /\ UNCHANGED <<entry, tree, tz, strict, stream, call, stack, visited>>

\* A call of parse::tags or parse::tag in progress: the node, the index of
\* the next inner node and what has been collected.
Frame(fn, node) ==
    [fn |-> fn, node |-> node, idx |-> 1,
     acc |-> IF fn = "tag" THEN TagNew(<<>>) ELSE <<>>]

\* The frames the stack of the thread has room for.  The number stands for
\* the size of the stack over the size of a frame, brought down to the
\* model: room for the documents nested MaxDepth deep and no more.
StackFrames == 2 * MaxDepth + 2

\* A call of tag or tags: the frame goes on the stack if there is room;
\* if not the thread overflows its stack and the process is aborted.
Enter(frame) ==
    IF Len(stack) < StackFrames
    THEN /\ stack' = Append(stack, frame)
         /\ UNCHANGED <<pc, result>>
    ELSE /\ stack' = stack
         /\ result' = StackOverflow
         /\ pc' = "done"

Top == stack[Len(stack)]

Pop == SubSeq(stack, 1, Len(stack) - 1)

SetTop(f) == [stack EXCEPT ![Len(stack)] = f]

\* read_to_string(&mut res): Ok(length), or the io::Error (InvalidData for
\* bytes that are no UTF-8).
ReadToString(s) == IF s = "read" THEN Ok(s) ELSE IoErr(s)

\* lib::parse_file up to the call of parse_text: the ? on the read returns
\* the error.
ParseFile ==
    /\ pc = "start" /\ entry = "parse_file"
    /\ IF IsOk(ReadToString(stream))
       THEN pc' = "text" /\ result' = result
       ELSE pc' = "exit" /\ result' = ReadToString(stream)
    /\ UNCHANGED <<entry, tree, tz, strict, stream, call, stack, visited>>

\* Ok(parse_text(..)) that turns a parse error into an error of the read.
FileResultFlat(r) == IF IsErr(r) THEN IoErr("parse") ELSE IoOk(r)

\* Ok(parse_text(res.as_str()))
FileResult(r) == IoOk(r)

\* lib::parse_file after parse_text returned (a panic or an abort goes on
\* as it is).
FileReturn ==
    /\ pc = "done" /\ entry = "parse_file"
    /\ result' = IF IsOk(result) \/ IsErr(result) THEN FileResult(result) ELSE result
    /\ pc' = "exit"
    /\ UNCHANGED <<entry, tree, tz, strict, stream, call, stack, visited>>

\* lib::parse_text up to the call of parse::tags through parse::tagtree,
\* called on a text or by parse_file on what it read.
ParseText ==
    /\ \/ pc = "start" /\ entry = "parse_text"
       \/ pc = "text"
    /\ IF tree.rule = "syntax_error"
       THEN /\ result' = parse_err("syntax", tree.text, tree)
            /\ pc' = "done"
            /\ stack' = stack
       ELSE IF tree.inner = <<>>
       THEN /\ result' = Panic
            /\ pc' = "done"
            /\ stack' = stack
       ELSE /\ result' = NoResult
            /\ pc' = "call"
            /\ stack' = <<Frame("tags", tree.inner[1])>>
    /\ UNCHANGED <<entry, tree, tz, strict, stream, call, visited>>

\* parse::tags: the map over the inner nodes, collected: the call of
\* parse::tag on the next node, or the return of the sequence.
Tags ==
    /\ pc = "call" /\ stack # <<>> /\ Top.fn = "tags"
    /\ IF Top.idx <= Len(Top.node.inner)
       THEN /\ Enter(Frame("tag", Top.node.inner[Top.idx]))
            /\ visited' = Append(visited, Top.node.inner[Top.idx].start)
       ELSE /\ stack' = Pop
            /\ result' = Ok(Top.acc)
            /\ pc' = "return"
            /\ visited' = visited
    /\ UNCHANGED <<entry, tree, tz, strict, stream, call>>

\* The fold of parse::tag after an inner node that is not a tag list: the
\* tag goes on to the next node, the error returns, the panic ends the run.
TagLeaf(r) ==
    IF IsOk(r)
    THEN /\ stack' = SetTop([Top EXCEPT !.acc = r.val, !.idx = @ + 1])
         /\ UNCHANGED <<pc, result>>
    ELSE IF IsErr(r)
    THEN /\ stack' = Pop
         /\ result' = r
         /\ pc' = "return"
    ELSE /\ stack' = stack
         /\ result' = Panic
         /\ pc' = "done"

\* The fold of parse::tag on the inner node n.
TagRound(n) ==
    /\ visited' = Append(visited, n.start)
    /\ IF n.rule = "tags"
       THEN Enter(Frame("tags", n))
       ELSE TagLeaf(TagChild(Top.acc, n, tz, strict))

\* parse::tag: one round of the try_fold, or the return of the tag.
Tag ==
    /\ pc = "call" /\ stack # <<>> /\ Top.fn = "tag"
    /\ IF Top.idx > Len(Top.node.inner)
       THEN /\ stack' = Pop
            /\ result' = Ok(Top.acc)
            /\ pc' = "return"
            /\ visited' = visited
       ELSE TagRound(Top.node.inner[Top.idx])
    /\ UNCHANGED <<entry, tree, tz, strict, stream, call>>

\* A call returns result to its caller: parse::tags (the collect), parse::tag
\* (tags(tree)? and the append) or lib::parse_text (the ? and Tag::tags).
Return ==
    /\ pc = "return"
    /\ IF stack = <<>>
       THEN /\ result' = IF IsOk(result) THEN Ok(TagTags(TagNew(<<>>), result.val))
                         ELSE result
            /\ pc' = "done"
            /\ stack' = stack
       ELSE IF ~IsOk(result)
       THEN /\ stack' = Pop
            /\ UNCHANGED <<pc, result>>
       ELSE /\ stack' = SetTop([Top EXCEPT
                   !.acc = IF Top.fn = "tags" THEN Append(@, result.val)
                           ELSE AppendTags(@, result).val,
                   !.idx = @ + 1])
            /\ result' = NoResult
            /\ pc' = "call"
    /\ UNCHANGED <<entry, tree, tz, strict, stream, call, visited>>

\* The arguments of the builder calls.
ValueLists ==
    {<<>>, <<Value("Boolean", TRUE)>>, <<Value("Null", <<>>), Value("Boolean", TRUE)>>}

AttrLists ==
    {<<>>, <<Attribute(<<"k">>, Value("Boolean", TRUE))>>,
     <<Attribute(<<"k">>, Value("Null", <<>>)), Attribute(<<"j">>, Value("Boolean", TRUE))>>}

TagLists == {<<>>, <<TagNew(<<"a">>)>>, <<TagNew(<<"b">>), TagNew(<<"a">>)>>}

\* Tag::new(name)
CallNew ==
    /\ pc = "start" /\ entry = "builder"
    /\ \E name \in {<<>>, <<"a">>} : call' = Call("new", <<>>, name, TagNew(name), 1)
    /\ pc' = "built"
    /\ UNCHANGED <<entry, tree, tz, strict, stream, result, stack, visited>>

\* A builder method takes the tag the call before returned.
Building == pc = "built" /\ call.n <= MaxCalls

CallNamespace ==
    /\ Building
    /\ \E ns \in {<<"n">>} :
          call' = Call("namespace", call.ret, ns, TagNamespace(call.ret, ns), call.n + 1)
    /\ UNCHANGED <<entry, tree, tz, strict, stream, pc, result, stack, visited>>

CallNamespaceOpt ==
    /\ Building
    /\ \E ns \in {None, Some(<<"m">>)} :
          call' = Call("namespace_opt", call.ret, ns, TagNamespaceOpt(call.ret, ns), call.n + 1)
    /\ UNCHANGED <<entry, tree, tz, strict, stream, pc, result, stack, visited>>

CallValues ==
    /\ Building
    /\ \E values \in ValueLists :
          call' = Call("values", call.ret, values, TagValues(call.ret, values), call.n + 1)
    /\ UNCHANGED <<entry, tree, tz, strict, stream, pc, result, stack, visited>>

CallAttrs ==
    /\ Building
    /\ \E attrs \in AttrLists :
          call' = Call("attrs", call.ret, attrs, TagAttrs(call.ret, attrs), call.n + 1)
    /\ UNCHANGED <<entry, tree, tz, strict, stream, pc, result, stack, visited>>

CallTags ==
    /\ Building
    /\ \E tags \in TagLists :
          call' = Call("tags", call.ret, tags, TagTags(call.ret, tags), call.n + 1)
    /\ UNCHANGED <<entry, tree, tz, strict, stream, pc, result, stack, visited>>

\* to_string() on the Value decoded.
CallValueDisplay ==
    /\ pc = "done" /\ entry = "value" /\ IsOk(result)
    /\ call' = Call("to_string", result.val, <<>>, ValueDisplay(result.val), 1)
    /\ UNCHANGED <<entry, tree, tz, strict, stream, pc, result, stack, visited>>

\* to_string() on the root tag parse_text returned (what println!("{}", ..)
\* writes).
CallTagDisplay ==
    /\ pc = "done" /\ entry = "parse_text" /\ IsOk(result)
    /\ call' = Call("to_string", result.val, <<>>, TagDisplay(result.val), 1)
    /\ UNCHANGED <<entry, tree, tz, strict, stream, pc, result, stack, visited>>

\* The tags of a decoded document a method is called on: the root and its
\* children.
Receivers == {result.val} \cup {result.val.tags[i] : i \in 1..Len(result.val.tags)}

Decoded == pc = "done" /\ entry = "parse_text" /\ IsOk(result)

CallAttr ==
    /\ Decoded
    /\ \E self \in Receivers, name \in Names :
          call' = Call("attr", self, name, TagAttr(self, name), 1)
    /\ UNCHANGED <<entry, tree, tz, strict, stream, pc, result, stack, visited>>

CallAttrMut ==
    /\ Decoded
    /\ \E self \in Receivers, name \in Names :
          call' = Call("attr_mut", self, name, TagAttrMut(self, name), 1)
    /\ UNCHANGED <<entry, tree, tz, strict, stream, pc, result, stack, visited>>

CallTag ==
    /\ Decoded
    /\ \E self \in Receivers, name \in Names :
          call' = Call("tag", self, name, TagTag(self, name), 1)
    /\ UNCHANGED <<entry, tree, tz, strict, stream, pc, result, stack, visited>>

CallTagMut ==
    /\ Decoded
    /\ \E self \in Receivers, name \in Names :
          call' = Call("tag_mut", self, name, TagTagMut(self, name), 1)
    /\ UNCHANGED <<entry, tree, tz, strict, stream, pc, result, stack, visited>>

Next ==
    \/ DecodeNumber
    \/ DecodeString
    \/ DecodeDuration
    \/ DecodeDateTime
    \/ DecodeBase64
    \/ DecodeDate
    \/ DecodeBoolean
    \/ DecodeValue
    \/ ParseFile
    \/ FileReturn
    \/ ParseText
    \/ Tags
    \/ Tag
    \/ Return
    \/ CallAttr
    \/ CallAttrMut
    \/ CallTag
    \/ CallTagMut
    \/ CallNew
    \/ CallNamespace
    \/ CallNamespaceOpt
    \/ CallValues
    \/ CallAttrs
    \/ CallTags
    \/ CallValueDisplay
    \/ CallTagDisplay

Spec == Init /\ [][Next]_vars

(***************************************************************************)
(* What the documents, numbers and strings denote, read off the syntax     *)
(* tree without the decoders' control flow.                                *)
(***************************************************************************)
\* The top-level tag nodes of a document.
TopTags == tree.inner[1].inner

IsDocument == entry = "parse_text" /\ tree.rule = "tagtree" /\ tree.inner # <<>>

\* The inner nodes of a rule, in source order.
OfRule(kids, rule) == SelectSeq(kids, LAMBDA k : k.rule = rule)

RECURSIVE TagOfKids(_)
RECURSIVE TagsOfBlock(_)
RECURSIVE TagsConcat(_)
\* The tag that a run of inner nodes denotes.
TagOfKids(kids) ==
    [namespace |-> IF OfRule(kids, "namespace") = <<>> THEN None
                   ELSE Some(OfRule(kids, "namespace")[Len(OfRule(kids, "namespace"))].inner[1].text),
     name |-> IF OfRule(kids, "ident") = <<>> THEN <<>>
              ELSE OfRule(kids, "ident")[Len(OfRule(kids, "ident"))].text,
     values |-> [i \in 1..Len(OfRule(kids, "value")) |->
                    value(OfRule(kids, "value")[i], tz, strict).val],
     attrs |-> [i \in 1..Len(OfRule(kids, "attribute")) |->
                    attribute(OfRule(kids, "attribute")[i], tz, strict).val],
     tags |-> TagsConcat(OfRule(kids, "tags"))]

\* The tags of a tag list, and of several tag lists on end.
TagsOfBlock(b) == [i \in 1..Len(b.inner) |-> TagOfKids(b.inner[i].inner)]

TagsConcat(blocks) ==
    IF blocks = <<>> THEN <<>> ELSE TagsOfBlock(Head(blocks)) \o TagsConcat(Tail(blocks))

RECURSIVE LeavesOfKids(_)
RECURSIVE LeavesOfTags(_)
\* The inner nodes of the tags that are no tag lists, in source order.
LeavesOfKids(kids) ==
    IF kids = <<>> THEN <<>>
    ELSE (IF Head(kids).rule = "tags" THEN LeavesOfTags(Head(kids).inner) ELSE <<Head(kids)>>)
         \o LeavesOfKids(Tail(kids))

LeavesOfTags(tags) ==
    IF tags = <<>> THEN <<>> ELSE LeavesOfKids(Head(tags).inner) \o LeavesOfTags(Tail(tags))

\* What decoding the one node gives.
LeafResult(k) ==
    IF k.rule = "value" THEN value(k, tz, strict)
    ELSE IF k.rule = "attribute" THEN attribute(k, tz, strict)
    ELSE IF k.rule \in {"namespace", "ident"} THEN Ok(k.text)
    ELSE Panic

\* The places of the nodes that do not decode.
Failures(leaves) == {i \in 1..Len(leaves) : ~IsOk(LeafResult(leaves[i]))}

\* What the first node in source order that does not decode gives.
FirstFailure ==
    IF Failures(LeavesOfTags(TopTags)) = {} THEN NoResult
    ELSE LeafResult(LeavesOfTags(TopTags)[
            CHOOSE i \in Failures(LeavesOfTags(TopTags)) :
                \A j \in Failures(LeavesOfTags(TopTags)) : i <= j])

(***************************************************************************)
(* C1  When parse_text succeeds the root tag has the empty name, no        *)
(* namespace, no values and no attributes, and its tags are exactly the    *)
(* decoded top-level tags of the document, in source order.                *)
(***************************************************************************)
C1_RootTag ==
    (IsDocument /\ pc = "done" /\ IsOk(result)) =>
        /\ result.val.name = <<>>
        /\ result.val.namespace = None
        /\ result.val.values = <<>>
        /\ result.val.attrs = <<>>
        /\ Len(result.val.tags) = Len(TopTags)
        /\ \A i \in 1..Len(TopTags) : result.val.tags[i] = TagOfKids(TopTags[i].inner)

\* Three sibling tags a, b, a decoded into three children in that order.
C1_Witness ==
    /\ IsDocument /\ pc = "done" /\ IsOk(result)
    /\ tree = TagTreeNode(<<TagA, TagB, TagA>>)
    /\ Len(result.val.tags) = 3
    /\ result.val.tags[1].name = <<"a">>
    /\ result.val.tags[2].name = <<"b">>
    /\ result.val.tags[3].values = <<>>

(***************************************************************************)
(* C2  Decoding is fail-fast and all-or-nothing: an error that a call      *)
(* returns, and the one parse_text ends with, is what the first node in    *)
(* source order that does not decode gives; no node after it has been      *)
(* looked at; and a tree is returned only when every node decodes.         *)
(***************************************************************************)
C2_FailFast ==
    IsDocument =>
        /\ (pc \in {"return", "done"} /\ IsErr(result)) =>
              /\ result = FirstFailure
              /\ \A i \in 1..Len(visited) : visited[i] <= result.span[1]
        /\ (pc = "done" /\ IsOk(result)) => FirstFailure = NoResult

\* An error in the second of three top-level tags, inside a nested list,
\* with a tag after it.
C2_Witness ==
    /\ IsDocument /\ pc = "done" /\ IsErr(result)
    /\ tree = TagTreeNode(<<TagA, Parent(<<"o">>, <<TagA, TagBadAttr, TagB>>), TagB>>)
    /\ result.what = "base64"

(***************************************************************************)
(* C3  The tag decoder folds the inner nodes in source order from the      *)
(* empty tag: at every point of every call the tag built so far is what    *)
(* the inner nodes already folded denote (the namespace and the name set,  *)
(* the values, attributes and nested tags appended in order), so a tag     *)
(* without a name node keeps the empty name.                               *)
(***************************************************************************)
C3_TagFold ==
    \A i \in 1..Len(stack) :
        IF stack[i].fn = "tag"
        THEN stack[i].acc = TagOfKids(SubSeq(stack[i].node.inner, 1, stack[i].idx - 1))
        ELSE /\ Len(stack[i].acc) = stack[i].idx - 1
             /\ \A j \in 1..Len(stack[i].acc) :
                    stack[i].acc[j] = TagOfKids(stack[i].node.inner[j].inner)

\* The fold at the end of a tag with a namespace, a name, two values and two
\* attributes of one name.
C3_Witness ==
    /\ pc = "call" /\ stack # <<>> /\ Top.fn = "tag"
    /\ Top.idx > Len(Top.node.inner)
    /\ Top.acc.namespace = Some(<<"n">>)
    /\ Top.acc.name = <<"b">>
    /\ Top.acc.values = <<Value("String", <<"a">>), Value("Number", [neg |-> FALSE, mag |-> <<1>>])>>
    /\ Top.acc.attrs = <<Attribute(<<"k">>, Value("Boolean", TRUE)), Attribute(<<"k">>, Value("Null", <<>>))>>

(***************************************************************************)
(* C4  The number decoder takes the width from the suffix alone: the       *)
(* digits decode to their value exactly when it fits 32 bits without a     *)
(* suffix, 64 bits with L, 128 bits with BD, and are an error otherwise.   *)
(***************************************************************************)
\* The width the suffix stands for.
SuffixBits(suffix) == IF suffix = <<>> THEN 32 ELSE IF suffix = <<"L">> THEN 64 ELSE 128

NumberNeg(text) == Head(text) = "-"

\* The magnitude the digits after the sign denote.
NumberMag(text) ==
    DigitsValue(IF Head(text) \in {"+", "-"} THEN Tail(text) ELSE text)

\* Whether the value lies in -2^(bits-1) .. 2^(bits-1) - 1.
InRange(neg, mag, bits) ==
    IF neg THEN BigCmp(mag, Pow2(bits - 1)) <= 0
    ELSE BigCmp(mag, Pow2(bits - 1)) < 0

C4_NumberWidth ==
    (entry = "number" /\ pc = "done" /\ SuffixOf(tree) \in Suffixes) =>
        IF InRange(NumberNeg(tree.inner[1].text), NumberMag(tree.inner[1].text),
                   SuffixBits(SuffixOf(tree)))
        THEN result = Ok([neg |-> NumberNeg(tree.inner[1].text)
                                  /\ NumberMag(tree.inner[1].text) # <<>>,
                          mag |-> NumberMag(tree.inner[1].text)])
        ELSE /\ IsErr(result)
             /\ result.span = <<tree.inner[1].start, tree.inner[1].end>>

\* 2^31 without a suffix is an error, though the container could hold it.
C4_Witness ==
    /\ entry = "number" /\ pc = "done"
    /\ SuffixOf(tree) = <<>>
    /\ tree.inner[1].text = BigText(Pow2(31))
    /\ IsErr(result)

(***************************************************************************)
(* C5  The string decoder strips one delimiter from each end; a raw string *)
(* is its interior unchanged; a quoted string is its interior with every   *)
(* pair of a backslash and a character of the table replaced by the one    *)
(* character the table gives.                                              *)
(***************************************************************************)
\* The table of the escapes.
Translate(c) ==
    IF c \in {"n", NL} THEN NL
    ELSE IF c = "r" THEN CR
    ELSE IF c = "t" THEN TAB
    ELSE IF c = "0" THEN NUL
    ELSE c

RECURSIVE Unescape(_)
Unescape(text) ==
    IF text = <<>> THEN <<>>
    ELSE IF Head(text) = BSL /\ Len(text) >= 2
    THEN <<Translate(text[2])>> \o Unescape(Tail(Tail(text)))
    ELSE <<Head(text)>> \o Unescape(Tail(text))

RECURSIVE PairedEscapes(_)
\* Every backslash that starts an escape has a character of the table after it.
PairedEscapes(text) ==
    IF text = <<>> THEN TRUE
    ELSE IF Head(text) = BSL
    THEN Len(text) >= 2 /\ text[2] \in {"n", NL, "r", "t", BSL, "0", QUOTE, APOS}
         /\ PairedEscapes(Tail(Tail(text)))
    ELSE PairedEscapes(Tail(text))

C5_String ==
    (entry = "string" /\ pc = "done") =>
        IF tree.text[1] = BACKTICK
        THEN result = Ok(SubSeq(tree.text, 2, Len(tree.text) - 1))
        ELSE PairedEscapes(SubSeq(tree.text, 2, Len(tree.text) - 1)) =>
                result = Ok(Unescape(SubSeq(tree.text, 2, Len(tree.text) - 1)))

\* A quoted string of an escaped n and a letter is a newline and the letter.
C5_Witness ==
    /\ entry = "string" /\ pc = "done"
    /\ tree.text = <<QUOTE, BSL, "n", "a", QUOTE>>
    /\ result = Ok(<<NL, "a">>)

(***************************************************************************)
(* C6  No syntax tree of the grammar makes a decoder crash: a date-time    *)
(* with or without the UTC marker, and a duration of days and a time,      *)
(* end in a value or a decode error.                                       *)
(***************************************************************************)
C6_NoCrash ==
    (/\ pc = "done"
     /\ \/ entry = "datetime"
        \/ entry = "duration" /\ \A i \in 1..Len(tree.inner) : tree.inner[i].rule \in {"days", "time"})
    => ~IsPanic(result)

(***************************************************************************)
(* C7  A node of a kind the decoder does not know for its place (an inner  *)
(* node of a tag, a literal of a value, an inner node of a duration, a     *)
(* suffix of a number or a decimal, an escape outside the table) makes the *)
(* decoder panic: it gives neither a value nor a decode error.             *)
(***************************************************************************)
RECURSIVE HasOddEscape(_)
\* Whether a backslash of the text has a character outside the table after it.
HasOddEscape(text) ==
    IF text = <<>> THEN FALSE
    ELSE IF Head(text) = BSL
    THEN Len(text) >= 2
         /\ (text[2] \notin {"n", NL, "r", "t", BSL, "0", QUOTE, APOS}
             \/ HasOddEscape(Tail(Tail(text))))
    ELSE HasOddEscape(Tail(text))

\* A literal of a rule that value does not know, or with a suffix that
\* number or decimal does not know.
OddLiteral(n) ==
    \/ n.rule \notin {"string", "base64", "date", "datetime", "duration", "number",
                      "decimal", "boolean", "null"}
    \/ n.rule = "number" /\ SuffixOf(n) \notin {<<>>, <<"L">>, <<"B", "D">>}
    \/ n.rule = "decimal" /\ SuffixOf(n) \notin {<<>>, <<"f">>}

\* An inner node of a tag that the fold, or value under it, does not know.
OddNode(k) ==
    \/ k.rule \notin {"namespace", "ident", "value", "attribute"}
    \/ k.rule = "value" /\ OddLiteral(k.inner[1])
    \/ k.rule = "attribute" /\ OddLiteral(k.inner[2].inner[1])

\* The unknown node is the first that the decoder comes to fail on.
Unrecognised ==
    \/ entry = "number" /\ SuffixOf(tree) \notin {<<>>, <<"L">>, <<"B", "D">>}
    \/ entry = "string" /\ tree.text[1] = QUOTE
       /\ HasOddEscape(SubSeq(tree.text, 2, Len(tree.text) - 1))
    \/ entry = "duration"
       /\ \E i \in 1..Len(tree.inner) :
            /\ tree.inner[i].rule \notin {"days", "time"}
            /\ \A j \in 1..(i - 1) :
                  IF tree.inner[j].rule = "days" THEN ParseU32(tree.inner[j].text).ok
                  ELSE tree.inner[j].rule = "time" /\ IsOk(time(tree.inner[j]))
    \/ IsDocument
       /\ \E i \in 1..Len(LeavesOfTags(TopTags)) :
            /\ OddNode(LeavesOfTags(TopTags)[i])
            /\ \A j \in 1..(i - 1) : j \notin Failures(LeavesOfTags(TopTags))

WellFormedDuration ==
    /\ entry = "duration"
    /\ \A i \in 1..Len(tree.inner) : tree.inner[i].rule \in {"days", "time"}

\* The digits of the day count (none when the days are absent) and the text
\* of the time.
DaysDigits == IF tree.inner[1].rule = "days" THEN DigitsValue(tree.inner[1].text) ELSE <<>>

TimeText == tree.inner[Len(tree.inner)].text

TwoAt(text, i) == 10 * DigitVal(text[i]) + DigitVal(text[i + 1])

MillisOf(text) ==
    IF Len(text) > 8
    THEN 100 * DigitVal(text[10]) + 10 * DigitVal(text[11]) + DigitVal(text[12])
    ELSE 0

\* ((days * 24 + hours) * 60 + minutes) * 60 + seconds
WholeSeconds ==
    U64Add(U64Mul(U64Add(U64Mul(U64Add(U64Mul(U64OfDigits(DaysDigits), 24),
                                       U64OfNat(TwoAt(TimeText, 1))), 60),
                         U64OfNat(TwoAt(TimeText, 4))), 60),
           U64OfNat(TwoAt(TimeText, 7)))

C8_Duration ==
    (WellFormedDuration /\ pc = "done") =>
        IF /\ BigCmp(DaysDigits, BigPred(Pow2(32))) <= 0
           /\ TwoAt(TimeText, 1) <= 23 /\ TwoAt(TimeText, 4) <= 59 /\ TwoAt(TimeText, 7) <= 60
        THEN /\ result = Ok([secs |-> WholeSeconds, nanos |-> MillisOf(TimeText) * 1000000])
             /\ FitsU64(result.val.secs)
             /\ \A i \in 1..4 : result.val.secs[i] >= 0
        ELSE IsErr(result)

\* 4294967295d:23:59:59.999 is 371085174374399 seconds and 999 milliseconds.
C8_Witness ==
    /\ entry = "duration" /\ pc = "done"
    /\ tree = DurationNode(BigPred(Pow2(32)), TimeNode(23, 59, 59, 999))
    /\ result = Ok([secs |-> <<374399, 85174, 371, 0>>, nanos |-> 999000000])

(***************************************************************************)
(* C9  A date-time with the UTC marker is its date and time taken as UTC,  *)
(* at the offset zero; one without is its date and time as the wall clock  *)
(* of the local zone, at the offset the zone has at that very instant.     *)
(***************************************************************************)
\* The date and the time of the literal.
NaiveOf(t) == NaiveDateTimeNew(date(t.inner[1]).val, time(t.inner[2]).val)

C9_Offset ==
    (entry = "datetime" /\ pc = "done" /\ IsOk(result)) =>
        IF Len(tree.inner) >= 3
        THEN result.val = DateTimeOf(NaiveOf(tree), 0)
        ELSE /\ AddSecs(result.val.utc, result.val.offset) = NaiveOf(tree)
             /\ result.val.offset = OffsetAtUtc(tz, result.val.utc)

\* A summer day in New York gets the summer offset, not the one of now.
C9_Witness ==
    /\ entry = "datetime" /\ pc = "done" /\ IsOk(result)
    /\ tz = NewYork
    /\ tree = DateTimeNode(DateNode(2021, 7, 4), TimeNode(1, 30, 0, -1), FALSE)
    /\ result.val.offset = -14400
    /\ OffsetAtUtc(tz, Now) = -18000

(***************************************************************************)
(* C10  A byte sequence encoded in the standard alphabet, with runs of     *)
(* blanks after its groups of four and in brackets, decodes to the same    *)
(* bytes; a payload that is no base64 is a decode error.                   *)
(***************************************************************************)
\* The text between the brackets, and the same without the blanks.
BodyOf(t) == SubSeq(t.text, 2, Len(t.text) - 1)

PayloadOf(t) == SelectSeq(BodyOf(t), LAMBDA c : ~IsBlank(c))

\* Every blank of the body stands after whole groups of four symbols.
BlanksAfterGroups(body) ==
    \A i \in 1..Len(body) :
        IsBlank(body[i]) =>
            /\ Len(SelectSeq(SubSeq(body, 1, i), LAMBDA c : ~IsBlank(c))) > 0
            /\ Len(SelectSeq(SubSeq(body, 1, i), LAMBDA c : ~IsBlank(c))) % 4 = 0

\* The byte sequences, each with its encoding before it.
Encodings == {<<B64Encode(b), b>> : b \in ByteSeqs}

\* How many symbols stand before the first padding.
DataLen(p) ==
    IF \E i \in 1..Len(p) : p[i] = "="
    THEN (CHOOSE i \in 1..Len(p) : p[i] = "=" /\ \A j \in 1..(i - 1) : p[j] # "=") - 1
    ELSE Len(p)

\* No base64 under any reading: a symbol after the padding, a lone symbol
\* in the last group, or more padding than fills the group.
ClearlyInvalid(p) ==
    \/ \E i \in (DataLen(p) + 1)..Len(p) : p[i] # "="
    \/ DataLen(p) % 4 = 1
    \/ Len(p) - DataLen(p) > (IF DataLen(p) % 4 = 2 THEN 2 ELSE IF DataLen(p) % 4 = 3 THEN 1 ELSE 0)

C10_Base64 ==
    (entry = "base64" /\ pc = "done") =>
        /\ BlanksAfterGroups(BodyOf(tree)) =>
              \A e \in Encodings : e[1] = PayloadOf(tree) => result = Ok(e[2])
        /\ ClearlyInvalid(PayloadOf(tree)) => IsErr(result)
        /\ (strict /\ IsOk(result)) => B64Encode(result.val) = PayloadOf(tree)

\* Four bytes in two groups, a tab among the blanks.
C10_Witness ==
    /\ entry = "base64" /\ pc = "done"
    /\ result = Ok(<<0, 77, 255, 0>>)
    /\ \E i \in 1..Len(tree.text) : tree.text[i] = TAB

(***************************************************************************)
(* C11  A date of the calendar written YYYY/MM/DD with a year of four      *)
(* digits decodes to the same year, month and day; a month 00 or 13, a day *)
(* 00, a day past the end of the month and 29 February of a year that is   *)
(* no leap year are a decode error, never a date.                          *)
(***************************************************************************)
\* The year, month and day written in the literal.
YearAt(text) == 100 * TwoAt(text, 1) + TwoAt(text, 3)

\* The lengths of the months of a common year.
MonthLengths == <<31, 28, 31, 30, 31, 30, 31, 31, 30, 31, 30, 31>>

\* A century is a leap year only when 400 divides it.
Gregorian(y) == IF y % 100 = 0 THEN (y \div 100) % 4 = 0 ELSE y % 4 = 0

CalendarValid(y, m, d) ==
    /\ m \in 1..12
    /\ d >= 1
    /\ d <= MonthLengths[m] + (IF m = 2 /\ Gregorian(y) THEN 1 ELSE 0)

C11_Date ==
    (entry = "date" /\ pc = "done") =>
        IF CalendarValid(YearAt(tree.text), TwoAt(tree.text, 6), TwoAt(tree.text, 9))
        THEN result = Ok([year |-> YearAt(tree.text), month |-> TwoAt(tree.text, 6),
                          day |-> TwoAt(tree.text, 9)])
        ELSE IsErr(result)

\* 2000/02/29 is a date: 400 divides the century.
C11_Witness ==
    /\ entry = "date" /\ pc = "done"
    /\ tree = DateNode(2000, 2, 29)
    /\ result = Ok([year |-> 2000, month |-> 2, day |-> 29])

(***************************************************************************)
(* C12  true and on decode to true, false and off decode to false; the     *)
(* decoder looks only at the family the grammar matched, never at the      *)
(* spelling.                                                               *)
(***************************************************************************)
FamilyOf(t) == t.inner[1].rule

C12_Boolean ==
    (entry = "boolean" /\ pc = "done" /\ tree.inner # <<>>) =>
        /\ FamilyOf(tree) = "bool_true" => result = Ok(TRUE)
        /\ FamilyOf(tree) = "bool_false" => result = Ok(FALSE)
        /\ tree \in GrammarBooleans =>
               result = Ok(tree.inner[1].text \in Spellings("bool_true"))

\* on is true although it is not spelled true.
C12_Witness ==
    /\ entry = "boolean" /\ pc = "done"
    /\ tree = BooleanNode("bool_true", <<"o", "n">>)
    /\ result = Ok(TRUE)

(***************************************************************************)
(* C13  A decoded tag keeps every attribute, also those of one name.       *)
(* Tag::attr and Tag::attr_mut give the earliest attribute of the name,    *)
(* Tag::tag and Tag::tag_mut the earliest direct child of the name, and    *)
(* None when there is none; the namespace of a child is not compared and   *)
(* the children of children are not searched.                              *)
(***************************************************************************)
\* The list a lookup goes through.
Searched ==
    IF call.method \in {"attr", "attr_mut"} THEN call.self.attrs ELSE call.self.tags

IsLookup == call.method \in {"attr", "attr_mut", "tag", "tag_mut"}

\* The places of the list where the name is.
Matches == {i \in 1..Len(Searched) : Searched[i].name = call.arg}

C13_FirstMatch ==
    /\ (IsDocument /\ pc = "done" /\ IsOk(result)) =>
          \A i \in 1..Len(TopTags) :
             Len(result.val.tags[i].attrs) = Len(OfRule(TopTags[i].inner, "attribute"))
    /\ IsLookup =>
          IF Matches = {}
          THEN call.ret = None
          ELSE /\ call.ret # None
               /\ call.ret[1].at \in Matches
               /\ \A i \in Matches : call.ret[1].at <= i
               /\ call.ret[1].to = Searched[call.ret[1].at]

\* Two attributes k on one tag: the lookup gives the first and not the
\* second.  b is found under its name although it has a namespace; the a
\* inside p is not found from the root.
C13_Witness ==
    /\ call.method = "attr" /\ call.arg = <<"k">>
    /\ Len(call.self.attrs) = 2
    /\ call.self.attrs[1].name = <<"k">> /\ call.self.attrs[2].name = <<"k">>
    /\ call.self.attrs[1].value # call.self.attrs[2].value
    /\ call.ret = Some([at |-> 1, to |-> call.self.attrs[1]])

C13_WitnessChild ==
    /\ call.method = "tag" /\ call.arg = <<"a">>
    /\ call.self = result.val
    /\ Len(call.self.tags) = 1 /\ call.self.tags[1].name = <<"p">>
    /\ \E j \in 1..Len(call.self.tags[1].tags) : call.self.tags[1].tags[j].name = <<"a">>
    /\ call.ret = None

(***************************************************************************)
(* C14  Tag::values, Tag::attrs and Tag::tags set their list: after the    *)
(* call the list is exactly the items given, whatever was built before,    *)
(* and the other four fields of the tag are as they were.                  *)
(***************************************************************************)
OtherFieldsKept ==
    \A f \in {"namespace", "name", "values", "attrs", "tags"} \ {call.method} :
        call.ret[f] = call.self[f]

C14_BuilderSets ==
    (entry = "builder" /\ call.method \in {"values", "attrs", "tags"}) =>
        /\ call.ret[call.method] = call.arg
        /\ OtherFieldsKept

\* What does hold: the items are appended to the list, the other fields kept.
C14_BuilderExtends ==
    (entry = "builder" /\ call.method \in {"values", "attrs", "tags"}) =>
        /\ call.ret[call.method] = call.self[call.method] \o call.arg
        /\ OtherFieldsKept

(***************************************************************************)
(* C15  Displaying what parse_text gives on hello_world "text" writes      *)
(* tag hello_world: "text", as the crate documentation says.               *)
(***************************************************************************)
DisplayedExample ==
    /\ entry = "parse_text" /\ tree = DocExample
    /\ call.method = "to_string" /\ call.self = result.val

C15_DocExample ==
    DisplayedExample =>
        call.ret = <<"t", "a", "g", " ">> \o HelloWorld
                   \o <<":", " ", QUOTE, "t", "e", "x", "t", QUOTE>>

\* What is written: the root tag, whose name is empty, and the tag
\* hello_world as its child on a second line, both names in quotes.
C15_Written ==
    DisplayedExample =>
        call.ret = <<"t", "a", "g", " ", QUOTE, QUOTE, ":", " ", NL, "*", " ",
                     "t", "a", "g", " ", QUOTE>> \o HelloWorld
                   \o <<QUOTE, ":", " ", QUOTE, "t", "e", "x", "t", QUOTE>>

(***************************************************************************)
(* C16  The text a Value is displayed as tells its variant: no two Values  *)
(* of different variants are displayed as the same text.                   *)
(***************************************************************************)
Displayed == entry = "value" /\ call.method = "to_string"

\* The literals that decode to a Value of another variant displayed alike.
Alike ==
    {t \in ValueTrees :
        /\ IsOk(value(t, tz, strict))
        /\ value(t, tz, strict).val[1] # call.self[1]
        /\ ValueDisplay(value(t, tz, strict).val) = call.ret}

C16_Distinct == Displayed => Alike = {}

\* What does hold: only a Number and a Decimal are displayed alike.
C16_NumbersAside ==
    Displayed =>
        \A t \in Alike : {call.self[1], value(t, tz, strict).val[1]} = {"Number", "Decimal"}

(***************************************************************************)
(* C17  parse_file reads the whole stream and hands it to parse_text.  A   *)
(* read that fails returns the error of the read and nothing is parsed; a  *)
(* read that succeeds returns Ok of exactly what parse_text gives on the   *)
(* content, so an error of the parse is never an error of the read and the *)
(* other way round.                                                        *)
(***************************************************************************)
\* What parse_text gives on the tree, read off the tree.
ParseTextDenotes ==
    IF tree.rule = "syntax_error" THEN parse_err("syntax", tree.text, tree)
    ELSE IF FirstFailure # NoResult THEN FirstFailure
    ELSE Ok([namespace |-> None, name |-> <<>>, values |-> <<>>, attrs |-> <<>>,
             tags |-> TagsOfBlock(tree.inner[1])])

C17_ParseFile ==
    entry = "parse_file" =>
        IF stream = "read"
        THEN pc = "exit" =>
                result = IF IsPanic(ParseTextDenotes) THEN Panic ELSE IoOk(ParseTextDenotes)
        ELSE /\ pc \in {"start", "exit"}
             /\ stack = <<>> /\ visited = <<>>
             /\ pc = "exit" => result = IoErr(stream)

\* A stream whose content does not decode: Ok around the error of the parse.
C17_Witness ==
    /\ entry = "parse_file" /\ stream = "read" /\ pc = "exit"
    /\ tree = TagTreeNode(<<TagA, TagTooLarge, TagB>>)
    /\ result.kind = "io_ok" /\ IsErr(result.val)
    /\ result.val.what = "number"

\* A stream of bytes that are no UTF-8: the error of the read.
C17_WitnessRead ==
    /\ entry = "parse_file" /\ stream = "invalid_utf8" /\ pc = "exit"
    /\ result = IoErr("invalid_utf8")

(***************************************************************************)
(* C18  The tag decoder recurses as deep as the input is nested and is     *)
(* guarded against running out of stack: input nested deeper than a bound  *)
(* is rejected, or decoded without the call stack growing with it, so that *)
(* decoding ends with a result for every finite syntax tree.               *)
(***************************************************************************)
RECURSIVE NestingOfKids(_)
RECURSIVE NestingOfTags(_)
\* How deep the tag lists of the tags are nested.
NestingOfKids(kids) ==
    IF kids = <<>> THEN 0
    ELSE LET rest == NestingOfKids(Tail(kids))
             here == IF Head(kids).rule = "tags" THEN 1 + NestingOfTags(Head(kids).inner) ELSE 0
         IN  IF here > rest THEN here ELSE rest

NestingOfTags(tags) ==
    IF tags = <<>> THEN 0
    ELSE LET rest == NestingOfTags(Tail(tags))
             here == NestingOfKids(Head(tags).inner)
         IN  IF here > rest THEN here ELSE rest

C18_Guarded ==
    (entry = "parse_text" /\ pc = "done") => result # StackOverflow

\* What does hold: two frames, of tags and of tag, for every level of the
\* input, and nothing that stops the descent before the stack is full.
C18_DepthFollowsInput ==
    (IsDocument /\ stack # <<>>) =>
        /\ Len(stack) <= 2 * NestingOfTags(TopTags) + 2
        /\ (NestingOfTags(TopTags) > MaxDepth /\ pc = "done") => result = StackOverflow

====
